---- MODULE Spec2Model ----
(***************************************************************************)
(* A model of the DNS resolution engine of dnscrawler                      *)
(* (src/pkg/dns/resolver.go): Exists, GetNameservers, Trace, LookupASN and *)
(* GetRecords.  Every operation is synchronous; the network (one UDP       *)
(* exchange per query) and the system host resolver are the environment    *)
(* and answer nondeterministically.  Text is modelled by strings, on which *)
(* Len, \o and SubSeq work character by character.                         *)
(***************************************************************************)
EXTENDS Integers, Sequences, FiniteSets, TLC

VARIABLES
    pc,             \* position of the running operation
    arg,            \* the argument of the call (a domain or an IP literal)
    sent,           \* every query handed to client.Exchange, in order
    rcvd,           \* what each Exchange returned, in order (Trace: see hop)
    ret,            \* the value the operation returned
    zones,          \* Trace: the precomputed zone sequence
    zi,             \* Trace: index of the next zone of the loop
    currentServer,  \* Trace: the server the next query goes to
    steps,          \* Trace: the steps emitted so far
    hop,            \* Trace: the last loop iteration: its zone, the reply it got
                    \*        and the host lookups it made
    nameservers,    \* GetNameservers: the entries collected so far
    ai,             \* GetNameservers: index of the next record of resp.Answer
    asn,            \* LookupASN: the bare ASN handed to lookupASName
    records,        \* GetRecords: the Records under construction
    client,         \* the client field of a Resolver shared by several callers
    inv,            \* concurrent callers: each invocation's own position,
                    \*        argument, history and result
    locals,         \* concurrent callers: the storage of the local variables
                    \*        steps and currentServer of Trace
    cli,            \* the command-line program: its position, flags and calls
    matcher         \* a provider Matcher: its pattern list and last result

vars == <<pc, arg, sent, rcvd, ret, zones, zi, currentServer, steps, hop,
          nameservers, ai, asn, records, client, inv, locals, cli, matcher>>

netVars == <<sent, rcvd>>
traceVars == <<zones, zi, currentServer, steps, hop>>
nsVars == <<nameservers, ai>>
resolverVars == <<pc, arg, netVars, ret, traceVars, nsVars, asn, records>>
concVars == <<client, inv, locals>>
callerVars == <<concVars, cli, matcher>>

-----------------------------------------------------------------------------
(* Bounds of the model.                                                    *)

\* the longest domain given to an operation has this many labels
MaxLabels == 2

\* the longest answer section of the NS reply of GetNameservers
MaxAnswers == 2

-----------------------------------------------------------------------------
(* Go's strings package and strconv, as far as the resolver uses them.     *)

HasPrefix(s, p) == Len(s) >= Len(p) /\ SubSeq(s, 1, Len(p)) = p

HasSuffix(s, suf) ==
    Len(s) >= Len(suf) /\ SubSeq(s, Len(s) - Len(suf) + 1, Len(s)) = suf

TrimSuffix(s, suf) ==
    IF HasSuffix(s, suf) THEN SubSeq(s, 1, Len(s) - Len(suf)) ELSE s

\* strings.Index: the first position (from 1) where sep starts in s, 0 if none
Index(s, sep) ==
    LET at == {i \in 1..(Len(s) - Len(sep) + 1) : SubSeq(s, i, i + Len(sep) - 1) = sep}
    IN  IF at = {} THEN 0 ELSE CHOOSE i \in at : \A j \in at : i <= j

Contains(s, sub) == Index(s, sub) > 0

RECURSIVE Split(_, _)
Split(s, sep) ==
    LET i == Index(s, sep)
    IN  IF i = 0 THEN <<s>>
        ELSE <<SubSeq(s, 1, i - 1)>> \o Split(SubSeq(s, i + Len(sep), Len(s)), sep)

\* strings.SplitN for n > 0: at most n parts, the last one the unsplit rest
RECURSIVE SplitN(_, _, _)
SplitN(s, sep, n) ==
    LET i == Index(s, sep)
    IN  IF n <= 1 \/ i = 0 THEN <<s>>
        ELSE <<SubSeq(s, 1, i - 1)>> \o SplitN(SubSeq(s, i + Len(sep), Len(s)), sep, n - 1)

RECURSIVE Join(_, _)
Join(parts, sep) ==
    IF Len(parts) = 0 THEN ""
    ELSE IF Len(parts) = 1 THEN parts[1]
    ELSE parts[1] \o sep \o Join(Tail(parts), sep)

RECURSIVE TrimLeft(_)
TrimLeft(s) == IF HasPrefix(s, " ") THEN TrimLeft(SubSeq(s, 2, Len(s))) ELSE s

RECURSIVE TrimRight(_)
TrimRight(s) == IF HasSuffix(s, " ") THEN TrimRight(SubSeq(s, 1, Len(s) - 1)) ELSE s

TrimSpace(s) == TrimRight(TrimLeft(s))

Digit(d) == SubSeq("0123456789abcdef", d + 1, d + 1)

\* fmt's %d of a non-negative integer
RECURSIVE Itoa(_)
Itoa(n) == IF n < 10 THEN Digit(n) ELSE Itoa(n \div 10) \o Digit(n % 10)

\* fmt's %x of a non-negative integer
RECURSIVE Hex(_)
Hex(n) == IF n < 16 THEN Digit(n) ELSE Hex(n \div 16) \o Digit(n % 16)

-----------------------------------------------------------------------------
(* The DNS library (github.com/miekg/dns) as the resolver uses it.         *)

\* dns.RcodeNameError (NXDOMAIN)
RcodeNameError == 3

\* the response codes a server sends: NOERROR, FORMERR, SERVFAIL, NXDOMAIN,
\* NOTIMP, REFUSED
Rcodes == 0..5

RecursiveResolver == "8.8.8.8:53"

\* dns.Fqdn: names carry no escaped dots here, so a name is fully qualified
\* exactly when it ends in a dot
Fqdn(s) == IF HasSuffix(s, ".") THEN s ELSE s \o "."

\* a resource record: Hdr.Name, the target (NS.Ns, CNAME.Target, MX.Mx), the
\* address bytes (A.A, AAAA.AAAA), MX.Preference and TXT.Txt
RR(type, name, val) ==
    [type |-> type, name |-> name, val |-> val, ip |-> <<>>, pref |-> 0, txt |-> <<>>]

NSrr(name, target) == RR("NS", name, target)
CNAMErr(name, target) == RR("CNAME", name, target)
Arr(name, ip) == [RR("A", name, "") EXCEPT !.ip = ip]
AAAArr(name, ip) == [RR("AAAA", name, "") EXCEPT !.ip = ip]
MXrr(name, pref, mx) == [RR("MX", name, mx) EXCEPT !.pref = pref]
TXTrr(name, txt) == [RR("TXT", name, "") EXCEPT !.txt = txt]

\* the message SetQuestion builds, with its RecursionDesired flag, and the
\* address Exchange sends it to
Question(server, name, qtype, rd) ==
    [server |-> server, name |-> name, qtype |-> qtype, rd |-> rd]

\* what Exchange returns: err # nil, or a response message
TransportError ==
    [err |-> TRUE, Rcode |-> 0, Answer |-> <<>>, Ns |-> <<>>, Extra |-> <<>>]

Reply(rcode, answer, ns, extra) ==
    [err |-> FALSE, Rcode |-> rcode, Answer |-> answer, Ns |-> ns, Extra |-> extra]

\* net.IP.String of the 4 bytes of an A record
IPv4String(ip) ==
    Itoa(ip[1]) \o "." \o Itoa(ip[2]) \o "." \o Itoa(ip[3]) \o "." \o Itoa(ip[4])

-----------------------------------------------------------------------------
(* The inputs: domains of up to MaxLabels labels, with and without the     *)
(* trailing dot; no labels gives the empty name and the root name.         *)

NameLabels == <<"uk", "co", "example", "www", "a", "b">>

\* the last k labels of www.example.co.uk, as a label list from left to right
LabelsOf(k) == [j \in 1..k |-> NameLabels[k + 1 - j]]

Domains ==
    {Join(LabelsOf(k), ".") \o dot : k \in 0..MaxLabels, dot \in {"", "."}}

\* the number of labels of a domain of Domains
CountLabel(d) ==
    LET bare == TrimSuffix(d, ".")
    IN  IF bare = "" THEN 0 ELSE Len(Split(bare, "."))

Pending == [done |-> FALSE]

-----------------------------------------------------------------------------
(* Exists (resolver.go 43-55).                                             *)

ExistsReplies ==
    {TransportError}
    \cup {Reply(rc, an, <<>>, <<>>) :
            rc \in Rcodes,
            an \in {<<>>,
                    <<NSrr("example.com.", "ns1.example.net.")>>,
                    <<NSrr("example.com.", "ns1.example.net."),
                      NSrr("example.com.", "ns2.example.net.")>>}}

ExistsQuestion(domain) == Question(RecursiveResolver, Fqdn(domain), "NS", TRUE)

\* lines 51-54
ExistsResult_FailClosed(r) == ~r.err /\ r.Rcode # RcodeNameError

ExistsResult(r) == IF r.err THEN TRUE ELSE r.Rcode # RcodeNameError

Exists ==
    /\ pc = "Exists"
    /\ \E r \in ExistsReplies :
         /\ sent' = Append(sent, ExistsQuestion(arg))
         /\ rcvd' = Append(rcvd, r)
         /\ ret' = [done |-> TRUE, val |-> ExistsResult(r)]
    /\ pc' = "done"
    /\ UNCHANGED <<arg, traceVars, nsVars, asn, records, callerVars>>

\* NewResolver (lines 35-41): the client and its timeout, in seconds
NewResolver == [Timeout |-> 5]

\* nothing is running
ResolverIdle ==
    /\ sent = <<>>
    /\ rcvd = <<>>
    /\ ret = Pending
    /\ zones = <<>>
    /\ zi = 0
    /\ currentServer = ""
    /\ steps = <<>>
    /\ hop = <<>>
    /\ nameservers = <<>>
    /\ ai = 0
    /\ asn = ""
    /\ records = <<>>

ConcurrentIdle == client = NewResolver /\ inv = <<>> /\ locals = <<>>

CliIdle == cli = [pc |-> "idle"]

MatcherIdle == matcher = [pc |-> "idle"]

InitIdle ==
    /\ ConcurrentIdle
    /\ CliIdle
    /\ MatcherIdle
    /\ sent = <<>>
    /\ rcvd = <<>>
    /\ ret = Pending
    /\ zones = <<>>
    /\ zi = 0
    /\ currentServer = ""
    /\ steps = <<>>
    /\ hop = <<>>
    /\ nameservers = <<>>
    /\ ai = 0
    /\ asn = ""
    /\ records = <<>>

InitExists == pc = "Exists" /\ arg \in Domains /\ InitIdle

SpecExists == InitExists /\ [][Exists]_vars

\* C1: Exists sends exactly one query, a recursion-desired NS query for the
\* fully qualified domain to 8.8.8.8:53, and returns false if and only if a
\* response arrived whose response code is name-error; for every other
\* response code and for a transport error it returns true.
C1_ExistsFailOpen ==
    pc = "done" =>
        /\ Len(sent) = 1
        /\ sent[1].server = "8.8.8.8:53"
        /\ sent[1].qtype = "NS"
        /\ sent[1].rd = TRUE
        /\ sent[1].name = (IF HasSuffix(arg, ".") THEN arg ELSE arg \o ".")
        /\ (ret.val = FALSE) <=> (~rcvd[1].err /\ rcvd[1].Rcode = 3)
        /\ rcvd[1].err => ret.val = TRUE

C1_Witness ==
    /\ pc = "done"
    /\ ~rcvd[1].err
    /\ rcvd[1].Rcode = 3
    /\ ret.val = FALSE
    /\ arg = "co.uk"

-----------------------------------------------------------------------------
(* GetNameservers and resolveNS (resolver.go 57-98).                       *)

SeqsUpTo(S, n) == UNION {[1..k -> S] : k \in 0..n}

NS1 == "ns1.example.net."
NS2 == "ns2.example.net."

NSAnswerRecords ==
    {NSrr("example.com.", NS1), NSrr("example.com.", NS2),
     CNAMErr("example.com.", "example.org.")}

NSReplies ==
    {TransportError}
    \cup {Reply(0, an, <<>>, <<>>) : an \in SeqsUpTo(NSAnswerRecords, MaxAnswers)}

ResolveReplies ==
    {TransportError,
     Reply(0, <<>>, <<>>, <<>>),
     Reply(0, <<Arr(NS1, <<192, 0, 2, 1>>)>>, <<>>, <<>>),
     Reply(0, <<CNAMErr(NS2, NS1), Arr(NS1, <<198, 51, 100, 27>>),
                Arr(NS1, <<192, 0, 2, 1>>)>>, <<>>, <<>>)}

NSQuestion(domain) == Question(RecursiveResolver, Fqdn(domain), "NS", TRUE)

\* line 66: the error check on the NS query
NSQueryFailed_Ignored(r) == FALSE

NSQueryFailed(r) == r.err

\* the positions of the records of one type in a section, in section order
OfType(section, type) == {i \in 1..Len(section) : section[i].type = type}

MinOf(S) == CHOOSE i \in S : \A j \in S : i <= j
MaxOf(S) == CHOOSE i \in S : \A j \in S : i >= j

ResolveQuestion(nsName) == Question(RecursiveResolver, nsName, "A", TRUE)

\* resolveNS after its Exchange: the first A record of the answer, or ""
resolveNS_LastA(r) ==
    IF r.err \/ OfType(r.Answer, "A") = {} THEN ""
    ELSE IPv4String(r.Answer[MaxOf(OfType(r.Answer, "A"))].ip)

resolveNS(r) ==
    IF r.err THEN ""
    ELSE IF OfType(r.Answer, "A") = {} THEN ""
    ELSE IPv4String(r.Answer[MinOf(OfType(r.Answer, "A"))].ip)

GetNameservers ==
    /\ pc = "GetNameservers"
    /\ \E r \in NSReplies :
         /\ sent' = Append(sent, NSQuestion(arg))
         /\ rcvd' = Append(rcvd, r)
         /\ IF NSQueryFailed(r)
            THEN /\ pc' = "done"
                 /\ ret' = [done |-> TRUE, val |-> <<>>, err |-> TRUE]
                 /\ ai' = ai
            ELSE /\ pc' = "range"
                 /\ ret' = ret
                 /\ ai' = 1
    /\ nameservers' = <<>>
    /\ UNCHANGED <<arg, traceVars, asn, records, callerVars>>

\* one iteration of the range over resp.Answer (lines 71-77)
GetNameserversRange ==
    /\ pc = "range"
    /\ ai <= Len(rcvd[1].Answer)
    /\ LET ans == rcvd[1].Answer[ai]
       IN  IF ans.type = "NS"
           THEN \E r \in ResolveReplies :
                  /\ sent' = Append(sent, ResolveQuestion(ans.val))
                  /\ rcvd' = Append(rcvd, r)
                  /\ nameservers' =
                       Append(nameservers,
                              [Name |-> TrimSuffix(ans.val, "."), IP |-> resolveNS(r)])
           ELSE UNCHANGED <<sent, rcvd, nameservers>>
    /\ ai' = ai + 1
    /\ UNCHANGED <<pc, arg, ret, traceVars, asn, records, callerVars>>

\* line 79
GetNameserversReturn ==
    /\ pc = "range"
    /\ ai > Len(rcvd[1].Answer)
    /\ pc' = "done"
    /\ ret' = [done |-> TRUE, val |-> nameservers, err |-> FALSE]
    /\ UNCHANGED <<arg, netVars, traceVars, nsVars, asn, records, callerVars>>

InitNameservers == pc = "GetNameservers" /\ arg \in Domains /\ InitIdle

NextNameservers == GetNameservers \/ GetNameserversRange \/ GetNameserversReturn

SpecNameservers == InitNameservers /\ [][NextNameservers]_vars

\* C5: when the NS query of GetNameservers fails at transport level, the call
\* returns an error and no nameserver list, and no A query is sent.
C5_NSQueryFailureIsHard ==
    (pc # "GetNameservers" /\ rcvd[1].err) =>
        /\ pc = "done"
        /\ ret.err = TRUE
        /\ ret.val = <<>>
        /\ Len(sent) = 1
        /\ sent[1].qtype = "NS"

C5_Witness ==
    /\ pc = "done"
    /\ rcvd[1].err
    /\ ret.err = TRUE
    /\ Len(sent) = 1

\* the records of a section that are NS records, in section order
RECURSIVE NSRecordsOf(_)
NSRecordsOf(section) ==
    IF section = <<>> THEN <<>>
    ELSE (IF Head(section).type = "NS" THEN <<Head(section)>> ELSE <<>>)
         \o NSRecordsOf(Tail(section))

\* the first A record of an answer section as dotted-quad text, "" if none
RECURSIVE FirstAText(_)
FirstAText(answer) ==
    IF answer = <<>> THEN ""
    ELSE IF Head(answer).type = "A"
         THEN LET b == Head(answer).ip
              IN  Itoa(b[1]) \o "." \o Itoa(b[2]) \o "." \o Itoa(b[3]) \o "." \o Itoa(b[4])
         ELSE FirstAText(Tail(answer))

\* C6: when the NS query succeeds, the result has exactly one entry per NS
\* record of the answer section, in answer order and with duplicates kept;
\* the k-th entry is named after the k-th NS record (trailing dot removed),
\* its A query is the (k+1)-th query sent, and its IP is the first A record
\* of that query's answer, or empty when that query failed or had no A
\* record; the call returns no error whatever the A queries did.
C6_OneEntryPerNSRecord ==
    (pc = "done" /\ ~rcvd[1].err) =>
        LET nsrrs == NSRecordsOf(rcvd[1].Answer)
        IN  /\ ret.err = FALSE
            /\ Len(ret.val) = Len(nsrrs)
            /\ Len(sent) = Len(nsrrs) + 1
            /\ Len(rcvd) = Len(sent)
            /\ \A k \in 1..Len(nsrrs) :
                 /\ ret.val[k].Name \o "." = nsrrs[k].val
                 /\ sent[k + 1] =
                      [server |-> "8.8.8.8:53", name |-> nsrrs[k].val,
                       qtype |-> "A", rd |-> TRUE]
                 /\ ret.val[k].IP =
                      (IF rcvd[k + 1].err THEN "" ELSE FirstAText(rcvd[k + 1].Answer))

\* the first of two equal NS records fails to resolve, the second resolves
C6_Witness ==
    /\ pc = "done"
    /\ ~rcvd[1].err
    /\ Len(ret.val) = 2
    /\ ret.val[1].Name = ret.val[2].Name
    /\ rcvd[2].err
    /\ ret.val[1].IP = ""
    /\ ret.val[2].IP = "198.51.100.27"

-----------------------------------------------------------------------------
(* Trace and getRootServerName (resolver.go 100-196).                      *)

RootServers == <<"198.41.0.4", "199.9.14.201", "192.33.4.12">>

getRootServerName(ip) ==
    IF ip = "198.41.0.4" THEN "a.root-servers.net"
    ELSE IF ip = "199.9.14.201" THEN "b.root-servers.net"
    ELSE IF ip = "192.33.4.12" THEN "c.root-servers.net"
    ELSE ip

\* lines 115-120, for the fully qualified domain
TraceZones(domain) ==
    LET parts == Split(TrimSuffix(domain, "."), ".")
        n == Len(parts)
    IN  <<".">> \o [k \in 1..n |-> Join(SubSeq(parts, n - k + 1, n), ".") \o "."]

\* line 112
FirstServer == RootServers[1]

\* what a server may answer to the NS query for a zone
TraceAnswers(zone) ==
    {<<>>,
     <<NSrr(zone, NS1)>>,
     <<CNAMErr(zone, "example.org.")>>,
     <<NSrr(zone, NS1), NSrr(zone, NS2)>>,
     <<NSrr(zone, ".")>>}

TraceAuthorities(zone) ==
    {<<>>,
     <<NSrr(zone, NS2)>>,
     <<RR("SOA", zone, NS1)>>,
     <<NSrr(zone, NS1), NSrr(zone, NS2)>>}

TraceExtras ==
    {<<>>,
     <<Arr(NS1, <<192, 0, 2, 1>>)>>,
     <<Arr(NS2, <<192, 0, 2, 2>>)>>,
     <<AAAArr(NS1, <<>>), Arr(NS1, <<192, 0, 2, 1>>), Arr(NS1, <<198, 51, 100, 27>>)>>}

TraceReplies(zone) ==
    {TransportError}
    \cup {Reply(0, an, ns, ex) :
            an \in TraceAnswers(zone), ns \in TraceAuthorities(zone), ex \in TraceExtras}

\* what net.LookupHost may return for each nameserver name
HostTables ==
    [{"ns1.example.net", "ns2.example.net"} ->
        {<<>>, <<"203.0.113.5", "203.0.113.6">>}]

\* line 163: net.LookupHost under a table of the hosts that resolve; any
\* other name, the empty name included, gives an error and no address
LookupHost(hosts, name) == IF name \in DOMAIN hosts THEN hosts[name] ELSE <<>>

\* lines 141-146
TraceSection(r) ==
    IF Len(r.Answer) > 0 THEN r.Answer
    ELSE IF Len(r.Ns) > 0 THEN r.Ns
    ELSE <<>>

\* lines 155-160: the address of the first A record of the additional section
\* owned by nsName, "" if there is none
RECURSIVE Glue(_, _)
Glue(extra, nsName) ==
    IF extra = <<>> THEN ""
    ELSE IF Head(extra).type = "A" /\ Head(extra).name = nsName
         THEN IPv4String(Head(extra).ip)
         ELSE Glue(Tail(extra), nsName)

\* lines 148-172: the loop over nsRecords.  acc carries serverName, nextServer
\* and the calls of net.LookupHost made so far; hosts is what the system
\* resolver answers.
RECURSIVE ScanNS_LookupFirst(_, _, _, _)
ScanNS_LookupFirst(recs, extra, hosts, acc) ==
    IF recs = <<>> THEN acc
    ELSE IF Head(recs).type # "NS" THEN ScanNS_LookupFirst(Tail(recs), extra, hosts, acc)
    ELSE LET serverName == TrimSuffix(Head(recs).val, ".")
             ips == LookupHost(hosts, serverName)
             glue == Glue(extra, Head(recs).val)
             nextServer == IF Len(ips) > 0 THEN ips[1] ELSE glue
             acc2 == [serverName |-> serverName,
                      nextServer |-> nextServer,
                      lookedUp |-> Append(acc.lookedUp, [name |-> serverName, ips |-> ips])]
         IN  IF nextServer # "" THEN acc2
             ELSE ScanNS_LookupFirst(Tail(recs), extra, hosts, acc2)

RECURSIVE ScanNS(_, _, _, _)
ScanNS(recs, extra, hosts, acc) ==
    IF recs = <<>> THEN acc
    ELSE IF Head(recs).type # "NS" THEN ScanNS(Tail(recs), extra, hosts, acc)
    ELSE LET serverName == TrimSuffix(Head(recs).val, ".")
             glue == Glue(extra, Head(recs).val)
             ips == IF glue = "" THEN LookupHost(hosts, serverName) ELSE <<>>
             nextServer == IF glue # "" THEN glue
                           ELSE IF Len(ips) > 0 THEN ips[1]
                           ELSE ""
             acc2 == [serverName |-> serverName,
                      nextServer |-> nextServer,
                      lookedUp |-> IF glue = ""
                                   THEN Append(acc.lookedUp,
                                               [name |-> serverName, ips |-> ips])
                                   ELSE acc.lookedUp]
         IN  IF nextServer # "" THEN acc2
             ELSE ScanNS(Tail(recs), extra, hosts, acc2)

\* the variant goes back to the first root server when nothing was obtained
NoScan_BackToRoot == [serverName |-> "", nextServer |-> FirstServer, lookedUp |-> <<>>]

\* lines 148-149
NoScan == [serverName |-> "", nextServer |-> "", lookedUp |-> <<>>]

\* the variant asks the first root server at every hop
TraceQuestion_AlwaysRoot(server, zone) == Question(FirstServer \o ":53", zone, "NS", FALSE)

\* lines 131-135
TraceQuestion(server, zone) == Question(server \o ":53", zone, "NS", FALSE)

\* lines 174-176
TraceEmit(stepsSoFar, zone, serverName) ==
    IF serverName # "" THEN Append(stepsSoFar, [Zone |-> zone, Server |-> serverName])
    ELSE stepsSoFar

\* lines 102-120
TraceStart ==
    /\ pc = "Trace"
    /\ zones' = TraceZones(Fqdn(arg))
    /\ currentServer' = FirstServer
    /\ steps' = <<>>
    /\ zi' = 1
    /\ pc' = "loop"
    /\ UNCHANGED <<arg, netVars, ret, hop, nsVars, asn, records, callerVars>>

\* one iteration of the loop over zones (lines 122-181)
TraceIter ==
    /\ pc = "loop"
    /\ zi <= Len(zones)
    /\ LET zone == zones[zi]
       IN  IF zi = 1
           THEN /\ steps' = Append(steps, [Zone |-> ".",
                                           Server |-> getRootServerName(currentServer)])
                /\ UNCHANGED <<sent, currentServer, hop>>
           ELSE \E r \in TraceReplies(zone), hosts \in HostTables :
                  LET scan == IF r.err THEN NoScan
                              ELSE ScanNS(TraceSection(r), r.Extra, hosts, NoScan)
                  IN  /\ sent' = Append(sent, TraceQuestion(currentServer, zone))
                      /\ hop' = <<[zone |-> zone, reply |-> r, lookedUp |-> scan.lookedUp]>>
                      /\ steps' = TraceEmit(steps, zone, scan.serverName)
                      /\ currentServer' = IF scan.nextServer # "" THEN scan.nextServer
                                          ELSE currentServer
    /\ zi' = zi + 1
    /\ UNCHANGED <<pc, arg, rcvd, ret, zones, nsVars, asn, records, callerVars>>

\* line 183
TraceReturn ==
    /\ pc = "loop"
    /\ zi > Len(zones)
    /\ pc' = "done"
    /\ ret' = [done |-> TRUE, val |-> steps, err |-> FALSE]
    /\ UNCHANGED <<arg, netVars, traceVars, nsVars, asn, records, callerVars>>

InitTrace == pc = "Trace" /\ arg \in Domains /\ InitIdle

NextTrace == TraceStart \/ TraceIter \/ TraceReturn

SpecTrace == InitTrace /\ [][NextTrace]_vars

\* C2: for every input domain, the root name and the empty name included, the
\* number of steps Trace returns is at most the number of labels of the
\* domain plus one.
C2_AtMostLabelsPlusOne ==
    pc = "done" => Len(ret.val) <= CountLabel(arg) + 1

\* C2 for the domains that have at least one label
C2_HoldsWithLabels ==
    (pc = "done" /\ CountLabel(arg) >= 1) => Len(ret.val) <= CountLabel(arg) + 1

\* C3: Trace never returns an empty list, its first step has zone "." and
\* server "a.root-servers.net", and no query is sent for the root zone.
C3_RootAssertedNotQueried ==
    pc = "done" =>
        /\ Len(ret.val) >= 1
        /\ ret.val[1] = [Zone |-> ".", Server |-> "a.root-servers.net"]
        /\ \A k \in 1..Len(sent) : sent[k].name # "."

\* the part of C3 about the first step, for every domain
C3_FirstStepIsRoot ==
    pc = "done" =>
        /\ Len(ret.val) >= 1
        /\ ret.val[1] = [Zone |-> ".", Server |-> "a.root-servers.net"]

\* C3 for the domains that have at least one label
C3_HoldsWithLabels ==
    (pc = "done" /\ CountLabel(arg) >= 1) =>
        /\ Len(ret.val) >= 1
        /\ ret.val[1] = [Zone |-> ".", Server |-> "a.root-servers.net"]
        /\ \A k \in 1..Len(sent) : sent[k].name # "."

\* the last element of a non-empty sequence
Last(seq) == seq[Len(seq)]

\* the positions of the A records of a section owned by a name
GlueAt(extra, owner) ==
    {i \in 1..Len(extra) : extra[i].type = "A" /\ extra[i].name = owner}

\* C4: after a hop whose step was emitted and whose reply holds, in its
\* additional section, an A record owned by the nameserver that step reports,
\* net.LookupHost was not called for that nameserver, currentServer is the
\* address of the first such A record, and the query of the next hop, if one
\* follows, is addressed to that address on port 53.
C4_GlueDecidesNextHop ==
    [][ (/\ pc = "loop"
         /\ hop # <<>>
         /\ ~hop[1].reply.err
         /\ Len(steps) >= 2
         /\ Last(steps).Zone = hop[1].zone
         /\ GlueAt(hop[1].reply.Extra, Last(steps).Server \o ".") # {})
        =>
        LET extra == hop[1].reply.Extra
            first == MinOf(GlueAt(extra, Last(steps).Server \o "."))
            b == extra[first].ip
            addr == Itoa(b[1]) \o "." \o Itoa(b[2]) \o "." \o Itoa(b[3]) \o "." \o Itoa(b[4])
        IN  /\ \A k \in 1..Len(hop[1].lookedUp) :
                 hop[1].lookedUp[k].name # Last(steps).Server
            /\ currentServer = addr
            /\ Len(sent') > Len(sent) => Last(sent').server = addr \o ":53"
      ]_vars

\* the first NS record has no glue and does not resolve, the second has glue:
\* the second hop is sent to the glue address
C4_Witness ==
    /\ Len(sent) = 2
    /\ Len(steps) >= 2
    /\ steps[2] = [Zone |-> sent[1].name, Server |-> "ns2.example.net"]
    /\ sent[2].server = "192.0.2.2:53"

-----------------------------------------------------------------------------
(* LookupASN and lookupASName (resolver.go 204-282).                       *)

\* the value of one hexadecimal digit, -1 for any other character
HexDigitValue(c) ==
    IF Index("0123456789abcdef", c) > 0 THEN Index("0123456789abcdef", c) - 1
    ELSE IF Index("ABCDEF", c) > 0 THEN Index("ABCDEF", c) + 9
    ELSE 0 - 1

\* one colon-separated field of an IPv6 literal: 1 to 4 hexadecimal digits
IsHexGroup(g) ==
    /\ Len(g) >= 1
    /\ Len(g) <= 4
    /\ \A i \in 1..Len(g) : HexDigitValue(SubSeq(g, i, i)) >= 0

RECURSIVE HexGroupValue(_)
HexGroupValue(g) ==
    IF Len(g) = 0 THEN 0
    ELSE HexGroupValue(SubSeq(g, 1, Len(g) - 1)) * 16 + HexDigitValue(SubSeq(g, Len(g), Len(g)))

GroupsToBytes(gs) ==
    [i \in 1..16 |-> IF i % 2 = 1 THEN HexGroupValue(gs[(i + 1) \div 2]) \div 256
                     ELSE HexGroupValue(gs[i \div 2]) % 256]

\* net.ParseIP followed by To16 for text that holds a colon: the 16 bytes of
\* the address, or <<>> (nil) when the text is no IPv6 literal.  Zones and
\* embedded dotted quads are not among the inputs.
ParseIPv6(s) ==
    LET halves == Split(s, "::")
        groupsOf(t) == IF t = "" THEN <<>> ELSE Split(t, ":")
    IN  IF Len(halves) > 2 THEN <<>>
        ELSE IF Len(halves) = 2
        THEN LET left == groupsOf(halves[1])
                 right == groupsOf(halves[2])
                 n == Len(left) + Len(right)
             IN  IF \/ n > 7
                    \/ (\E i \in 1..Len(left) : ~IsHexGroup(left[i]))
                    \/ (\E j \in 1..Len(right) : ~IsHexGroup(right[j]))
                 THEN <<>>
                 ELSE GroupsToBytes(left \o [i \in 1..(8 - n) |-> "0"] \o right)
        ELSE LET groups == Split(s, ":")
             IN  IF Len(groups) # 8 \/ (\E i \in 1..Len(groups) : ~IsHexGroup(groups[i]))
                 THEN <<>>
                 ELSE GroupsToBytes(groups)

\* lines 218-222: from the last byte to the first, low nibble then high nibble
Nibbles_HighFirst(full) ==
    [k \in 1..32 |-> LET b == full[16 - ((k - 1) \div 2)]
                     IN  IF k % 2 = 1 THEN Hex(b \div 16) ELSE Hex(b % 16)]

Nibbles(full) ==
    [k \in 1..32 |-> LET b == full[16 - ((k - 1) \div 2)]
                     IN  IF k % 2 = 1 THEN Hex(b % 16) ELSE Hex(b \div 16)]

NoQuery == [ok |-> FALSE, name |-> ""]

\* lines 206-232: the name of the origin query, or no query (return nil)
OriginQuery(ip) ==
    IF Contains(ip, ":")
    THEN LET full == ParseIPv6(ip)
         IN  IF full = <<>> THEN NoQuery
             ELSE [ok |-> TRUE,
                   name |-> Join(Nibbles(full), ".") \o ".origin6.asn.cymru.com."]
    ELSE LET parts == Split(ip, ".")
         IN  IF Len(parts) # 4 THEN NoQuery
             ELSE [ok |-> TRUE,
                   name |-> parts[4] \o "." \o parts[3] \o "." \o parts[2] \o "."
                            \o parts[1] \o ".origin.asn.cymru.com."]

\* lines 239-246
OriginAbsent(r) ==
    \/ r.err
    \/ Len(r.Answer) = 0
    \/ r.Answer[1].type # "TXT"
    \/ Len(r.Answer[1].txt) = 0

\* lines 249-254
OriginASN(r) == TrimSpace(SplitN(r.Answer[1].txt[1], " | ", 5)[1])

NoASNInfo == [nil |-> TRUE, ASN |-> "", Org |-> ""]

ASNInfo(a, org) == [nil |-> FALSE, ASN |-> a, Org |-> org]

ASNameQuestion(a) ==
    Question(RecursiveResolver, "AS" \o a \o ".asn.cymru.com.", "TXT", TRUE)

\* lines 264-281
ASNameResult_NilOnFailure(a, r) ==
    IF r.err \/ Len(r.Answer) = 0 THEN NoASNInfo
    ELSE IF r.Answer[1].type # "TXT" \/ Len(r.Answer[1].txt) = 0 THEN NoASNInfo
    ELSE LET nameFields == SplitN(r.Answer[1].txt[1], " | ", 5)
         IN  ASNInfo("AS" \o a,
                     IF Len(nameFields) >= 5 THEN TrimSpace(nameFields[5]) ELSE "")

ASNameResult(a, r) ==
    IF r.err \/ Len(r.Answer) = 0 THEN ASNInfo("AS" \o a, "")
    ELSE IF r.Answer[1].type # "TXT" \/ Len(r.Answer[1].txt) = 0 THEN ASNInfo("AS" \o a, "")
    ELSE LET nameFields == SplitN(r.Answer[1].txt[1], " | ", 5)
         IN  ASNInfo("AS" \o a,
                     IF Len(nameFields) >= 5 THEN TrimSpace(nameFields[5]) ELSE "")

ASNInputs ==
    {"104.18.27.120", "1.2.3.4", "216.90.108.1", "1.2.3", "8.8.8.8.8", "",
     "2606:4700::6812:1b78", "::1", "2001:DB8::a", "1:2:3:4:5:6:7:8", "::", "fe80::",
     "1::2::3", "12345::1", "1:2:3:4:5:6:7", "1:2:3:4:5:6:7::8", "g::1", ":::"}

OriginReplies ==
    {TransportError,
     Reply(0, <<>>, <<>>, <<>>),
     Reply(3, <<>>, <<>>, <<>>),
     Reply(0, <<CNAMErr("x.origin.asn.cymru.com.", "example.org.")>>, <<>>, <<>>),
     Reply(0, <<TXTrr("x.origin.asn.cymru.com.", <<>>)>>, <<>>, <<>>)}
    \cup {Reply(0, <<TXTrr("x.origin.asn.cymru.com.", txt)>>, <<>>, <<>>) :
            txt \in {<<"13335 | 104.18.0.0/15 | US | arin | 2014-03-28">>,
                     <<"23028 10310 | 216.90.108.0/24 | US | arin | 1998-09-25">>,
                     <<"15169 | 8.8.8.0/24", " | US | arin | 2023-12-28">>,
                     <<" 64500 ">>,
                     <<"">>}}

ASNameReplies ==
    {TransportError,
     Reply(0, <<>>, <<>>, <<>>),
     Reply(0, <<CNAMErr("AS13335.asn.cymru.com.", "example.org.")>>, <<>>, <<>>),
     Reply(0, <<TXTrr("AS13335.asn.cymru.com.", <<>>)>>, <<>>, <<>>),
     Reply(0, <<TXTrr("AS13335.asn.cymru.com.",
                      <<"13335 | US | arin | 2010-07-14 | CLOUDFLARENET, US">>)>>, <<>>, <<>>),
     Reply(0, <<TXTrr("AS13335.asn.cymru.com.", <<"13335 | US | arin">>)>>, <<>>, <<>>)}

\* lines 205-255
LookupASN ==
    /\ pc = "LookupASN"
    /\ LET q == OriginQuery(arg)
       IN  IF ~q.ok
           THEN /\ pc' = "done"
                /\ ret' = [done |-> TRUE, val |-> NoASNInfo]
                /\ UNCHANGED <<sent, rcvd, asn>>
           ELSE \E r \in OriginReplies :
                  /\ sent' = Append(sent, Question(RecursiveResolver, q.name, "TXT", TRUE))
                  /\ rcvd' = Append(rcvd, r)
                  /\ IF OriginAbsent(r)
                     THEN /\ pc' = "done"
                          /\ ret' = [done |-> TRUE, val |-> NoASNInfo]
                          /\ asn' = asn
                     ELSE /\ pc' = "lookupASName"
                          /\ ret' = ret
                          /\ asn' = OriginASN(r)
    /\ UNCHANGED <<arg, traceVars, nsVars, records, callerVars>>

\* lines 258-282
lookupASName ==
    /\ pc = "lookupASName"
    /\ \E r \in ASNameReplies :
         /\ sent' = Append(sent, ASNameQuestion(asn))
         /\ rcvd' = Append(rcvd, r)
         /\ ret' = [done |-> TRUE, val |-> ASNameResult(asn, r)]
    /\ pc' = "done"
    /\ UNCHANGED <<arg, asn, traceVars, nsVars, records, callerVars>>

InitASN == pc = "LookupASN" /\ arg \in ASNInputs /\ InitIdle

NextASN == LookupASN \/ lookupASName

SpecASN == InitASN /\ [][NextASN]_vars

\* an answer that cannot be read as TXT: no TXT record, or one holding no string
NotReadableAsTXT(rr) == rr.type # "TXT" \/ rr.txt = <<>>

OriginFailed(r) == r.err \/ r.Answer = <<>> \/ NotReadableAsTXT(r.Answer[1])

\* the text before the first " | " of a payload, without surrounding spaces
BareNumber(payload) ==
    LET i == Index(payload, " | ")
    IN  TrimSpace(IF i = 0 THEN payload ELSE SubSeq(payload, 1, i - 1))

\* the second half of C7: once the origin answer is obtained the result is
\* never absent, its asn is "AS" followed by the number of the origin answer,
\* and its org is empty when the AS-name query fails, has no answer or has an
\* answer that cannot be read as TXT
ASNameFailureTolerated ==
    (pc = "done" /\ Len(rcvd) >= 1 /\ ~OriginFailed(rcvd[1])) =>
        /\ Len(rcvd) = 2
        /\ ~ret.val.nil
        /\ ret.val.ASN = "AS" \o BareNumber(rcvd[1].Answer[1].txt[1])
        /\ OriginFailed(rcvd[2]) => ret.val.Org = ""

\* C7 as stated: LookupASN returns absent only when the origin query errors,
\* returns no answer, or its first answer cannot be read as TXT; once the
\* origin answer is obtained, no outcome of the AS-name query makes the
\* result absent.
C7_AbsentOnlyOnOriginFailure ==
    /\ (pc = "done" /\ ret.val.nil) => (Len(rcvd) >= 1 /\ OriginFailed(rcvd[1]))
    /\ ASNameFailureTolerated

\* the arguments LookupASN builds an origin query name for
Encodable(ip) ==
    IF Index(ip, ":") > 0 THEN ParseIPv6(ip) # <<>> ELSE Len(Split(ip, ".")) = 4

\* C7 as amended: LookupASN returns absent only when its argument gives no
\* origin query name (no query is sent then), or the origin query errors,
\* returns no answer, or its first answer cannot be read as TXT; once the
\* origin answer is obtained, no outcome of the AS-name query makes the
\* result absent.
C7_AbsentOnlyWithoutOriginAnswer ==
    /\ (pc = "done" /\ ret.val.nil) =>
          \/ (Len(sent) = 0 /\ ~Encodable(arg))
          \/ (Len(rcvd) = 1 /\ OriginFailed(rcvd[1]))
    /\ (pc = "done" /\ ~Encodable(arg)) => (ret.val.nil /\ Len(sent) = 0)
    /\ ASNameFailureTolerated

\* the origin answer is obtained and the AS-name query fails at transport level
C7_Witness ==
    /\ pc = "done"
    /\ Len(rcvd) = 2
    /\ ~OriginFailed(rcvd[1])
    /\ rcvd[2].err
    /\ ret.val = [nil |-> FALSE, ASN |-> "AS13335", Org |-> ""]

IsDecimal(t) ==
    /\ Len(t) >= 1
    /\ \A i \in 1..Len(t) : Index("0123456789", SubSeq(t, i, i)) > 0

\* C8: whenever LookupASN returns a result, its asn field is "AS" followed by
\* one or more decimal digits and nothing else.
C8_ASNWellFormed ==
    (pc = "done" /\ ~ret.val.nil) =>
        /\ Len(ret.val.ASN) >= 3
        /\ SubSeq(ret.val.ASN, 1, 2) = "AS"
        /\ IsDecimal(SubSeq(ret.val.ASN, 3, Len(ret.val.ASN)))

\* C8 holds for the origin payloads whose first field is one decimal number
C8_WellFormedForNumericPayload ==
    (pc = "done" /\ ~ret.val.nil /\ IsDecimal(BareNumber(rcvd[1].Answer[1].txt[1]))) =>
        /\ SubSeq(ret.val.ASN, 1, 2) = "AS"
        /\ IsDecimal(SubSeq(ret.val.ASN, 3, Len(ret.val.ASN)))

RECURSIVE Reverse(_)
Reverse(seq) == IF seq = <<>> THEN <<>> ELSE Append(Reverse(Tail(seq)), Head(seq))

\* C9: for text a.b.c.d without a colon the origin query name is
\* "d.c.b.a.origin.asn.cymru.com."; for every parseable IPv6 literal a query
\* is sent and its name is 32 dot-separated single hex nibbles followed by
\* ".origin6.asn.cymru.com.", the nibbles of the 16 address bytes from the
\* last byte to the first, the low nibble of each byte before its high one.
C9_OriginQueryName ==
    pc # "LookupASN" =>
        /\ (Index(arg, ":") = 0 /\ Len(Split(arg, ".")) = 4) =>
              /\ Len(sent) >= 1
              /\ sent[1].name =
                   Join(Reverse(Split(arg, ".")), ".") \o ".origin.asn.cymru.com."
        /\ (Index(arg, ":") > 0 /\ ParseIPv6(arg) # <<>>) =>
              /\ Len(sent) >= 1
              /\ HasSuffix(sent[1].name, ".origin6.asn.cymru.com.")
              /\ LET labels == Split(TrimSuffix(sent[1].name, ".origin6.asn.cymru.com."), ".")
                     full == ParseIPv6(arg)
                 IN  /\ Len(labels) = 32
                     /\ \A j \in 1..16 :
                          /\ labels[2 * j - 1] = Digit(full[17 - j] % 16)
                          /\ labels[2 * j] = Digit(full[17 - j] \div 16)

C9_Witness ==
    /\ arg = "2606:4700::6812:1b78"
    /\ Len(sent) >= 1
    /\ sent[1].name =
         "8.7.b.1.2.1.8.6.0.0.0.0.0.0.0.0.0.0.0.0.0.0.0.0.0.0.7.4.6.0.6.2.origin6.asn.cymru.com."

-----------------------------------------------------------------------------
(* GetRecords, queryRecords, queryMX and queryTXT (resolver.go 293-381).   *)

\* net.IP.String of the 16 bytes of an AAAA record
IPv6Groups(ip) == [i \in 1..8 |-> ip[2 * i - 1] * 256 + ip[2 * i]]

RECURSIVE ZeroRun(_, _)
ZeroRun(g, i) == IF i > Len(g) THEN 0 ELSE IF g[i] # 0 THEN 0 ELSE 1 + ZeroRun(g, i + 1)

IPv6String(ip) ==
    IF (\A i \in 1..10 : ip[i] = 0) /\ ip[11] = 255 /\ ip[12] = 255
    THEN IPv4String(SubSeq(ip, 13, 16))
    ELSE LET g == IPv6Groups(ip)
             text == [i \in 1..8 |-> Hex(g[i])]
             longest == MaxOf({ZeroRun(g, i) : i \in 1..8})
             e0 == MinOf({i \in 1..8 : ZeroRun(g, i) = longest})
         IN  IF longest < 2 THEN Join(text, ":")
             ELSE Join(SubSeq(text, 1, e0 - 1), ":") \o "::"
                  \o Join(SubSeq(text, e0 + longest, 8), ":")

\* lines 322-337: the type switch of queryRecords over the answer section
RECURSIVE CollectRecords(_)
CollectRecords(answer) ==
    IF answer = <<>> THEN <<>>
    ELSE LET rr == Head(answer)
             this == IF rr.type = "A" THEN <<IPv4String(rr.ip)>>
                     ELSE IF rr.type = "AAAA" THEN <<IPv6String(rr.ip)>>
                     ELSE IF rr.type = "CNAME" THEN <<TrimSuffix(rr.val, ".")>>
                     ELSE <<>>
         IN  this \o CollectRecords(Tail(answer))

queryRecords(r) == IF r.err THEN <<>> ELSE CollectRecords(r.Answer)

\* lines 346-356
RECURSIVE CollectMX(_)
CollectMX(answer) ==
    IF answer = <<>> THEN <<>>
    ELSE (IF Head(answer).type = "MX"
          THEN <<Itoa(Head(answer).pref) \o " " \o TrimSuffix(Head(answer).val, ".")>>
          ELSE <<>>)
         \o CollectMX(Tail(answer))

queryMX(r) == IF r.err THEN <<>> ELSE CollectMX(r.Answer)

\* the same, cutting from 60 characters on
TXTValue_CutAtLimit(txt) ==
    LET value == Join(txt, "")
    IN  IF Len(value) >= 60 THEN SubSeq(value, 1, 57) \o "..." ELSE value

\* lines 372-377
TXTValue(txt) ==
    LET value == Join(txt, "")
    IN  IF Len(value) > 60 THEN SubSeq(value, 1, 57) \o "..." ELSE value

\* lines 365-380
RECURSIVE CollectTXT(_)
CollectTXT(answer) ==
    IF answer = <<>> THEN <<>>
    ELSE (IF Head(answer).type = "TXT" THEN <<TXTValue(Head(answer).txt)>> ELSE <<>>)
         \o CollectTXT(Tail(answer))

queryTXT(r) == IF r.err THEN <<>> ELSE CollectTXT(r.Answer)

\* records := &Records{}
EmptyRecords ==
    [A |-> <<>>, AAAA |-> <<>>, MX |-> <<>>, TXT |-> <<>>, NS |-> <<>>, CNAME |-> <<>>]

RecordQuestion(domain, qtype) == Question(RecursiveResolver, Fqdn(domain), qtype, TRUE)

\* what the resolver may answer to each of the five queries
RepliesA(d) ==
    {TransportError,
     Reply(0, <<>>, <<>>, <<>>),
     Reply(0, <<CNAMErr(d, "edge.example.net."), Arr("edge.example.net.", <<104, 18, 27, 120>>),
                Arr("edge.example.net.", <<104, 18, 26, 120>>)>>, <<>>, <<>>),
     Reply(0, <<Arr(d, <<104, 18, 27, 120>>)>>, <<>>, <<>>)}

RepliesAAAA(d) ==
    {TransportError,
     Reply(3, <<>>, <<>>, <<>>),
     Reply(0, <<AAAArr(d, <<38, 6, 71, 0, 0, 0, 0, 0, 0, 0, 0, 0, 104, 18, 27, 120>>)>>,
           <<>>, <<>>),
     Reply(0, <<AAAArr(d, <<32, 1, 13, 184, 0, 0, 0, 1, 0, 0, 0, 0, 0, 0, 0, 10>>),
                AAAArr(d, <<0, 0, 0, 0, 0, 0, 0, 0, 0, 0, 255, 255, 192, 0, 2, 1>>)>>,
           <<>>, <<>>)}

RepliesMX(d) ==
    {TransportError,
     Reply(0, <<>>, <<>>, <<>>),
     Reply(0, <<MXrr(d, 10, "mail.example.com."), MXrr(d, 200, "backup.example.net.")>>,
           <<>>, <<>>),
     Reply(0, <<CNAMErr(d, "edge.example.net."), MXrr(d, 0, ".")>>, <<>>, <<>>)}

RepliesTXT(d) ==
    {TransportError,
     Reply(0, <<>>, <<>>, <<>>),
     Reply(0, <<TXTrr(d, <<"v=spf1 -all">>)>>, <<>>, <<>>),
     Reply(0, <<TXTrr(d, <<"v=spf1 include:_spf.example.com include:mail.example.net ",
                           "ip4:192.0.2.0/24 -all">>),
                TXTrr(d, <<"google-site-verification=", "abc">>)>>, <<>>, <<>>)}

RepliesCNAME(d) ==
    {TransportError,
     Reply(0, <<>>, <<>>, <<>>),
     Reply(0, <<CNAMErr(d, "edge.example.net.")>>, <<>>, <<>>)}

\* GetRecords goes on to the next query whatever the last one returned
AfterQuery_ReturnOnError(next, r) == IF r.err THEN "records.return" ELSE next

AfterQuery(next, r) == next

\* line 299, with lines 295-296
GetRecordsA ==
    /\ pc = "GetRecords"
    /\ \E r \in RepliesA(Fqdn(arg)) :
         /\ sent' = Append(sent, RecordQuestion(arg, "A"))
         /\ rcvd' = Append(rcvd, r)
         /\ records' = [EmptyRecords EXCEPT !.A = queryRecords(r)]
         /\ pc' = AfterQuery("records.AAAA", r)
    /\ UNCHANGED <<arg, ret, traceVars, nsVars, asn, callerVars>>

\* line 302
GetRecordsAAAA ==
    /\ pc = "records.AAAA"
    /\ \E r \in RepliesAAAA(Fqdn(arg)) :
         /\ sent' = Append(sent, RecordQuestion(arg, "AAAA"))
         /\ rcvd' = Append(rcvd, r)
         /\ records' = [records EXCEPT !.AAAA = queryRecords(r)]
         /\ pc' = AfterQuery("records.MX", r)
    /\ UNCHANGED <<arg, ret, traceVars, nsVars, asn, callerVars>>

\* line 305
GetRecordsMX ==
    /\ pc = "records.MX"
    /\ \E r \in RepliesMX(Fqdn(arg)) :
         /\ sent' = Append(sent, RecordQuestion(arg, "MX"))
         /\ rcvd' = Append(rcvd, r)
         /\ records' = [records EXCEPT !.MX = queryMX(r)]
         /\ pc' = AfterQuery("records.TXT", r)
    /\ UNCHANGED <<arg, ret, traceVars, nsVars, asn, callerVars>>

\* line 308
GetRecordsTXT ==
    /\ pc = "records.TXT"
    /\ \E r \in RepliesTXT(Fqdn(arg)) :
         /\ sent' = Append(sent, RecordQuestion(arg, "TXT"))
         /\ rcvd' = Append(rcvd, r)
         /\ records' = [records EXCEPT !.TXT = queryTXT(r)]
         /\ pc' = AfterQuery("records.CNAME", r)
    /\ UNCHANGED <<arg, ret, traceVars, nsVars, asn, callerVars>>

\* line 311
GetRecordsCNAME ==
    /\ pc = "records.CNAME"
    /\ \E r \in RepliesCNAME(Fqdn(arg)) :
         /\ sent' = Append(sent, RecordQuestion(arg, "CNAME"))
         /\ rcvd' = Append(rcvd, r)
         /\ records' = [records EXCEPT !.CNAME = queryRecords(r)]
         /\ pc' = AfterQuery("records.return", r)
    /\ UNCHANGED <<arg, ret, traceVars, nsVars, asn, callerVars>>

\* line 313
GetRecordsReturn ==
    /\ pc = "records.return"
    /\ pc' = "done"
    /\ ret' = [done |-> TRUE, val |-> records, err |-> FALSE]
    /\ UNCHANGED <<arg, netVars, traceVars, nsVars, asn, records, callerVars>>

InitRecords == pc = "GetRecords" /\ arg \in Domains /\ InitIdle

NextRecords ==
    \/ GetRecordsA
    \/ GetRecordsAAAA
    \/ GetRecordsMX
    \/ GetRecordsTXT
    \/ GetRecordsCNAME
    \/ GetRecordsReturn

SpecRecords == InitRecords /\ [][NextRecords]_vars

\* the answer records of the listed types, in answer order
RECURSIVE Only(_, _)
Only(answer, types) ==
    IF answer = <<>> THEN <<>>
    ELSE (IF Head(answer).type \in types THEN <<Head(answer)>> ELSE <<>>)
         \o Only(Tail(answer), types)

\* the field a query fills, by the position of the query
FieldOf(recs, k) ==
    IF k = 1 THEN recs.A
    ELSE IF k = 2 THEN recs.AAAA
    ELSE IF k = 3 THEN recs.MX
    ELSE IF k = 4 THEN recs.TXT
    ELSE recs.CNAME

\* the record types the query at a position collects
CollectedBy(k) ==
    IF k = 3 THEN {"MX"} ELSE IF k = 4 THEN {"TXT"} ELSE {"A", "AAAA", "CNAME"}

\* the text GetRecords keeps of one answer record
ValueOf(rr) ==
    IF rr.type = "A"
    THEN Itoa(rr.ip[1]) \o "." \o Itoa(rr.ip[2]) \o "." \o Itoa(rr.ip[3]) \o "." \o Itoa(rr.ip[4])
    ELSE IF rr.type = "AAAA" THEN IPv6String(rr.ip)
    ELSE IF rr.type = "MX"
    THEN Itoa(rr.pref) \o " " \o (IF HasSuffix(rr.val, ".") THEN SubSeq(rr.val, 1, Len(rr.val) - 1)
                                   ELSE rr.val)
    ELSE IF rr.type = "TXT" THEN TXTValue(rr.txt)
    ELSE IF HasSuffix(rr.val, ".") THEN SubSeq(rr.val, 1, Len(rr.val) - 1)
    ELSE rr.val

\* C10: GetRecords returns no error and always issues its five queries, in
\* the order A, AAAA, MX, TXT, CNAME; the field of a query that failed at
\* transport level is empty, and every field is decided by the reply to its
\* own query alone: it holds, in answer order, the text of each answer
\* record of the types that query collects, whatever the other queries
\* returned.
C10_FieldsDegradeIndependently ==
    pc = "done" =>
        /\ ret.err = FALSE
        /\ Len(sent) = 5
        /\ Len(rcvd) = 5
        /\ <<sent[1].qtype, sent[2].qtype, sent[3].qtype, sent[4].qtype, sent[5].qtype>>
             = <<"A", "AAAA", "MX", "TXT", "CNAME">>
        /\ ret.val.NS = <<>>
        /\ \A k \in 1..5 :
             /\ sent[k].server = "8.8.8.8:53"
             /\ sent[k].rd = TRUE
             /\ rcvd[k].err => FieldOf(ret.val, k) = <<>>
             /\ ~rcvd[k].err =>
                  LET own == Only(rcvd[k].Answer, CollectedBy(k))
                  IN  /\ Len(FieldOf(ret.val, k)) = Len(own)
                      /\ \A i \in 1..Len(own) : FieldOf(ret.val, k)[i] = ValueOf(own[i])

\* the MX query fails, the queries before and after it succeed
C10_Witness ==
    /\ pc = "done"
    /\ rcvd[3].err
    /\ ret.val.MX = <<>>
    /\ ret.val.A = <<"104.18.27.120">>
    /\ ret.val.AAAA = <<"2606:4700::6812:1b78">>
    /\ ret.val.TXT = <<"v=spf1 -all">>
    /\ ret.val.CNAME = <<"edge.example.net">>

-----------------------------------------------------------------------------
(* queryTXT called on its own (resolver.go 359-381), over TXT records whose *)
(* concatenated segments are shorter than, exactly at, and longer than the  *)
(* truncation limit.                                                        *)

\* text of distinct neighbouring characters, so that a cut shows where it fell
TXTAlphabet ==
    "0123456789abcdefghijklmnopqrstuvwxyzABCDEFGHIJKLMNOPQRSTUVWXYZ-_+/=.:;,!"
    \o "zyxwvutsrqponmlkjihgfedcba9876543210"

\* n characters of TXTAlphabet after the first off
Segment(off, n) == SubSeq(TXTAlphabet, off + 1, off + n)

\* lengths of the first and of the second character-string of a TXT record
FirstSegmentLengths == {0, 29, 30, 57, 59, 60, 61}
SecondSegmentLengths == {0, 1, 3, 30, 31}

\* the character-strings a TXT record may carry: one segment or two
TXTSegments ==
    {<<Segment(0, a)>> : a \in FirstSegmentLengths}
    \cup {<<Segment(0, a), Segment(a, b)>> :
            a \in {n \in FirstSegmentLengths : n <= 60}, b \in SecondSegmentLengths}

\* what the resolver may answer to the TXT query of queryTXT
TXTReplies(d) ==
    {TransportError, Reply(0, <<>>, <<>>, <<>>), Reply(3, <<>>, <<>>, <<>>)}
    \cup {Reply(0, <<TXTrr(d, t)>>, <<>>, <<>>) : t \in TXTSegments}
    \cup {Reply(0, <<CNAMErr(d, "edge.example.net."), TXTrr("edge.example.net.", t),
                     TXTrr("edge.example.net.", <<"v=spf1 -all">>)>>, <<>>, <<>>) :
            t \in TXTSegments}

\* lines 359-381
queryTXTCall ==
    /\ pc = "queryTXT"
    /\ \E r \in TXTReplies(Fqdn(arg)) :
         /\ sent' = Append(sent, RecordQuestion(arg, "TXT"))
         /\ rcvd' = Append(rcvd, r)
         /\ ret' = [done |-> TRUE, val |-> queryTXT(r), err |-> FALSE]
    /\ pc' = "done"
    /\ UNCHANGED <<arg, traceVars, nsVars, asn, records, callerVars>>

InitTXT == pc = "queryTXT" /\ arg \in Domains /\ InitIdle

SpecTXT == InitTXT /\ [][queryTXTCall]_vars

\* the concatenation of the character-strings of one TXT record, in order
RECURSIVE Concat(_)
Concat(txt) == IF txt = <<>> THEN "" ELSE Head(txt) \o Concat(Tail(txt))

\* C11: a TXT value is the concatenation of the character-strings of its
\* record in order; when the concatenation is longer than 60 characters the
\* value is its first 57 characters followed by "...", 60 characters in all,
\* and a concatenation of 60 characters or fewer is returned as it is.  The
\* values are those of the TXT records of the answer, in answer order.
C11_TXTConcatenatedAndTruncated ==
    (pc = "done" /\ ~rcvd[1].err) =>
        LET txts == Only(rcvd[1].Answer, {"TXT"})
        IN  /\ Len(ret.val) = Len(txts)
            /\ \A i \in 1..Len(txts) :
                 LET whole == Concat(txts[i].txt)
                     value == ret.val[i]
                 IN  IF Len(whole) > 60
                     THEN /\ Len(value) = 60
                          /\ SubSeq(value, 1, 57) = SubSeq(whole, 1, 57)
                          /\ SubSeq(value, 58, 60) = "..."
                     ELSE value = whole

\* a record of two character-strings, 61 characters together, is cut to 57
\* characters and "..."; in the same answer a short record is kept whole
C11_Witness ==
    /\ pc = "done"
    /\ ~rcvd[1].err
    /\ Len(rcvd[1].Answer) = 3
    /\ rcvd[1].Answer[2].txt = <<Segment(0, 30), Segment(30, 31)>>
    /\ ret.val = <<Segment(0, 57) \o "...", "v=spf1 -all">>

\* a record whose character-strings make exactly 60 characters is kept whole
C11_WitnessAtLimit ==
    /\ pc = "done"
    /\ ~rcvd[1].err
    /\ Len(rcvd[1].Answer) = 1
    /\ rcvd[1].Answer[1].type = "TXT"
    /\ Len(rcvd[1].Answer[1].txt) = 2
    /\ Len(ret.val[1]) = 60
    /\ ret.val[1] = Segment(0, 60)

-----------------------------------------------------------------------------
(* Several callers on one Resolver (resolver.go 12-41, 43-55, 100-184):     *)
(* each invocation of Exists or Trace runs with its own local variables,    *)
(* the Resolver's client field is all they share, and their steps           *)
(* interleave freely.                                                       *)

MaxInvocations == 2

Invocations == 1..MaxInvocations

\* the domains the concurrent callers ask about: one of each label count
ConcurrentDomains == {Join(LabelsOf(k), ".") : k \in 1..MaxLabels}

\* what a server may answer to one NS query of a concurrent Trace
ConcurrentReplies(zone) ==
    {TransportError,
     Reply(0, <<NSrr(zone, NS1)>>, <<>>, <<Arr(NS1, <<192, 0, 2, 1>>)>>),
     Reply(0, <<>>, <<NSrr(zone, NS2)>>, <<>>)}

ConcurrentExistsReplies ==
    {TransportError, Reply(0, <<>>, <<>>, <<>>), Reply(RcodeNameError, <<>>, <<>>, <<>>)}

ConcurrentHostTables ==
    {h \in HostTables : h["ns1.example.net"] = h["ns2.example.net"]}

\* where an invocation keeps its local variables: a frame of its own.  The
\* variant keeps them in one place for all invocations, as fields of the
\* Resolver would be.
Slot_OnResolver(p) == 1

\* lines 104, 112: steps and currentServer are declared inside Trace
Slot(p) == p

NoLocals == [steps |-> <<>>, currentServer |-> ""]

\* an invocation that has not started
Called(op, domain) ==
    [op |-> op, arg |-> domain, pc |-> op, zones |-> <<>>, zi |-> 0,
     history |-> <<>>, sent |-> <<>>, ret |-> Pending]

\* lines 43-55, run by invocation p
ConcurrentExists(p) ==
    /\ inv[p].pc = "Exists"
    /\ client = NewResolver
    /\ \E r \in ConcurrentExistsReplies :
         inv' = [inv EXCEPT ![p].pc = "done",
                            ![p].sent = Append(@, ExistsQuestion(inv[p].arg)),
                            ![p].history = Append(@, [reply |-> r, lookedUp |-> <<>>]),
                            ![p].ret = [done |-> TRUE, val |-> ExistsResult(r)]]
    /\ UNCHANGED <<resolverVars, client, locals, cli, matcher>>

\* lines 102-120, run by invocation p
ConcurrentTraceStart(p) ==
    /\ inv[p].pc = "Trace"
    /\ inv' = [inv EXCEPT ![p].pc = "loop",
                          ![p].zones = TraceZones(Fqdn(inv[p].arg)),
                          ![p].zi = 1]
    /\ locals' = [locals EXCEPT ![Slot(p)] = [steps |-> <<>>,
                                              currentServer |-> FirstServer]]
    /\ UNCHANGED <<resolverVars, client, cli, matcher>>

\* lines 122-181, run by invocation p
ConcurrentTraceIter(p) ==
    /\ inv[p].pc = "loop"
    /\ inv[p].zi <= Len(inv[p].zones)
    /\ client = NewResolver
    /\ LET zone == inv[p].zones[inv[p].zi]
           mine == locals[Slot(p)]
       IN  IF inv[p].zi = 1
           THEN /\ locals' = [locals EXCEPT ![Slot(p)].steps =
                                Append(mine.steps,
                                       [Zone |-> ".",
                                        Server |-> getRootServerName(mine.currentServer)])]
                /\ inv' = [inv EXCEPT ![p].zi = @ + 1]
           ELSE \E r \in ConcurrentReplies(zone), hosts \in ConcurrentHostTables :
                  LET scan == IF r.err THEN NoScan
                              ELSE ScanNS(TraceSection(r), r.Extra, hosts, NoScan)
                  IN  /\ inv' = [inv EXCEPT
                                   ![p].zi = @ + 1,
                                   ![p].sent = Append(@, TraceQuestion(mine.currentServer, zone)),
                                   ![p].history = Append(@, [reply |-> r,
                                                             lookedUp |-> scan.lookedUp])]
                      /\ locals' = [locals EXCEPT
                                      ![Slot(p)].steps = TraceEmit(mine.steps, zone, scan.serverName),
                                      ![Slot(p)].currentServer =
                                          IF scan.nextServer # "" THEN scan.nextServer
                                          ELSE mine.currentServer]
    /\ UNCHANGED <<resolverVars, client, cli, matcher>>

\* line 183, run by invocation p
ConcurrentTraceReturn(p) ==
    /\ inv[p].pc = "loop"
    /\ inv[p].zi > Len(inv[p].zones)
    /\ inv' = [inv EXCEPT ![p].pc = "done",
                          ![p].ret = [done |-> TRUE, val |-> locals[Slot(p)].steps,
                                      err |-> FALSE]]
    /\ UNCHANGED <<resolverVars, client, locals, cli, matcher>>

InitConcurrent ==
    /\ pc = "idle"
    /\ arg = ""
    /\ ResolverIdle
    /\ CliIdle
    /\ MatcherIdle
    /\ client = NewResolver
    /\ inv \in [Invocations -> {Called(op, d) : op \in {"Exists", "Trace"},
                                                d \in ConcurrentDomains}]
    /\ locals = [p \in Invocations |-> NoLocals]

NextConcurrent ==
    \E p \in Invocations :
        \/ ConcurrentExists(p)
        \/ ConcurrentTraceStart(p)
        \/ ConcurrentTraceIter(p)
        \/ ConcurrentTraceReturn(p)

SpecConcurrent == InitConcurrent /\ [][NextConcurrent]_vars

\* what net.LookupHost answered, read back from the lookups of one hop
HostsOf(lookedUp) ==
    [n \in {"ns1.example.net", "ns2.example.net"} |->
        IF \E k \in 1..Len(lookedUp) : lookedUp[k].name = n
        THEN lookedUp[CHOOSE k \in 1..Len(lookedUp) : lookedUp[k].name = n].ips
        ELSE <<>>]

\* Trace run alone over the first k replies of a history: the steps it has
\* emitted, the server it would ask next and the queries it has sent
RECURSIVE TraceAlone(_, _, _)
TraceAlone(zs, history, k) ==
    IF k = 0
    THEN [steps |-> <<[Zone |-> ".", Server |-> getRootServerName(FirstServer)]>>,
          currentServer |-> FirstServer,
          sent |-> <<>>]
    ELSE LET before == TraceAlone(zs, history, k - 1)
             zone == zs[k + 1]
             r == history[k].reply
             scan == IF r.err THEN NoScan
                     ELSE ScanNS(TraceSection(r), r.Extra, HostsOf(history[k].lookedUp), NoScan)
         IN  [steps |-> TraceEmit(before.steps, zone, scan.serverName),
              currentServer |-> IF scan.nextServer # "" THEN scan.nextServer
                                ELSE before.currentServer,
              sent |-> Append(before.sent, TraceQuestion(before.currentServer, zone))]

\* C12: under every interleaving of the invocations running on one Resolver,
\* the Resolver's client is never written, each invocation has sent exactly
\* the queries it would have sent alone given the replies it received, and
\* an invocation that has returned has returned what it would return alone
\* on those replies.
C12_InvocationsDoNotInterfere ==
    /\ client = NewResolver
    /\ \A p \in Invocations :
         IF inv[p].op = "Exists"
         THEN inv[p].pc = "done" =>
                /\ inv[p].sent = <<ExistsQuestion(inv[p].arg)>>
                /\ inv[p].ret.val = ExistsResult(inv[p].history[1].reply)
         ELSE LET zs == TraceZones(Fqdn(inv[p].arg))
                  alone == TraceAlone(zs, inv[p].history, Len(inv[p].history))
              IN  /\ inv[p].sent = alone.sent
                  /\ inv[p].pc = "done" =>
                       /\ Len(inv[p].history) = Len(zs) - 1
                       /\ inv[p].ret.val = alone.steps

\* two invocations of Trace are both half way, each having learnt a
\* different next server from its own reply
C12_Witness ==
    /\ inv[1].op = "Trace"
    /\ inv[2].op = "Trace"
    /\ inv[1].pc = "loop"
    /\ inv[2].pc = "loop"
    /\ Len(inv[1].history) = 1
    /\ Len(inv[2].history) = 1
    /\ inv[1].zi <= Len(inv[1].zones)
    /\ inv[2].zi <= Len(inv[2].zones)
    /\ locals[1].currentServer = "192.0.2.1"
    /\ locals[2].currentServer = "203.0.113.5"

-----------------------------------------------------------------------------
(* GetRootDomain and IsSubdomain (domain.go 8-174).                         *)

multiPartTLDs ==
    {"co.uk", "org.uk", "me.uk", "ac.uk", "gov.uk", "co.nz", "org.nz",
     "net.nz", "co.jp", "ne.jp", "or.jp", "ac.jp", "com.au", "net.au",
     "org.au", "edu.au", "gov.au", "co.za", "org.za", "com.br", "org.br",
     "net.br", "gov.br", "com.mx", "org.mx", "gob.mx", "co.in", "net.in",
     "org.in", "ac.in", "gov.in", "com.cn", "net.cn", "org.cn", "gov.cn",
     "com.tw", "org.tw", "gov.tw", "co.kr", "or.kr", "ne.kr", "com.sg",
     "org.sg", "edu.sg", "gov.sg", "com.my", "org.my", "gov.my", "co.th",
     "or.th", "ac.th", "go.th", "com.ph", "org.ph", "gov.ph", "com.vn",
     "org.vn", "gov.vn", "co.id", "or.id", "ac.id", "go.id", "com.ar",
     "org.ar", "gov.ar", "co.cl", "com.co", "org.co", "gov.co", "com.pe",
     "org.pe", "gob.pe", "com.ve", "org.ve", "gob.ve", "com.ec", "org.ec",
     "com.uy", "org.uy", "gub.uy", "co.il", "org.il", "ac.il", "gov.il",
     "com.tr", "org.tr", "gov.tr", "edu.tr", "com.ua", "org.ua", "gov.ua",
     "co.ke", "or.ke", "go.ke", "co.tz", "or.tz", "go.tz", "co.ug", "or.ug",
     "go.ug", "com.ng", "org.ng", "gov.ng", "com.eg", "org.eg", "gov.eg",
     "com.sa", "org.sa", "gov.sa", "com.ae", "org.ae", "gov.ae", "com.pk",
     "org.pk", "gov.pk", "govt.nz", "ac.nz", "com.pl", "org.pl", "gov.pl",
     "net.pl", "com.ru", "org.ru", "gov.ru", "priv.no", "fylke.no",
     "kommune.no"}

\* the lower-case letter of each upper-case ASCII letter
LowerOf ==
    "A" :> "a" @@ "B" :> "b" @@ "C" :> "c" @@ "D" :> "d" @@ "E" :> "e" @@ "F" :> "f" @@
    "G" :> "g" @@ "H" :> "h" @@ "I" :> "i" @@ "J" :> "j" @@ "K" :> "k" @@ "L" :> "l" @@
    "M" :> "m" @@ "N" :> "n" @@ "O" :> "o" @@ "P" :> "p" @@ "Q" :> "q" @@ "R" :> "r" @@
    "S" :> "s" @@ "T" :> "t" @@ "U" :> "u" @@ "V" :> "v" @@ "W" :> "w" @@ "X" :> "x" @@
    "Y" :> "y" @@ "Z" :> "z"

UpperLetters == DOMAIN LowerOf

\* strings.ToLower, for ASCII text
RECURSIVE ToLower(_)
ToLower(s) ==
    IF Len(s) = 0 THEN ""
    ELSE LET c == SubSeq(s, 1, 1)
         IN  (IF c \in UpperLetters THEN LowerOf[c] ELSE c)
             \o ToLower(SubSeq(s, 2, Len(s)))

\* strings.TrimPrefix
TrimPrefix(s, prefix) ==
    IF HasPrefix(s, prefix) THEN SubSeq(s, Len(prefix) + 1, Len(s)) ELSE s

\* the variant takes the last two labels whatever the suffix
GetRootDomain_LastTwo(name) ==
    LET domain == TrimSuffix(ToLower(TrimSpace(name)), ".")
        parts == Split(domain, ".")
        n == Len(parts)
    IN  IF n <= 2 THEN domain ELSE parts[n - 1] \o "." \o parts[n]

\* lines 142-165
GetRootDomain(name) ==
    LET domain == TrimSuffix(ToLower(TrimSpace(name)), ".")
        parts == Split(domain, ".")
        n == Len(parts)
    IN  IF n <= 2 THEN domain
        ELSE LET possibleTLD == parts[n - 1] \o "." \o parts[n]
             IN  IF possibleTLD \in multiPartTLDs
                 THEN parts[n - 2] \o "." \o possibleTLD
                 ELSE parts[n - 1] \o "." \o parts[n]

\* lines 168-174
IsSubdomain(name) ==
    LET domain == TrimSuffix(ToLower(TrimSpace(name)), ".")
    IN  domain # GetRootDomain(domain)

-----------------------------------------------------------------------------
(* The command-line program (part_000 47-161, 192-256): runCrawler and      *)
(* printDomainInfo, with every call they make on the resolver and on the    *)
(* WHOIS client written to a log in the order of the calls.  Calls on the   *)
(* formatter and on the matchers look nothing up and are not logged.        *)

\* args[0]
CliArguments ==
    {"example.com", "WWW.Example.COM", "https://www.example.co.uk/about",
     "example.co.uk.", " int.ytterdal.net ", "uk", "a.b.example.com."}

\* lines 48-55
NormalizeArgument(a) ==
    LET lowered == ToLower(TrimSpace(a))
        bare == TrimPrefix(TrimPrefix(lowered, "http://"), "https://")
        idx == Index(bare, "/") - 1
    IN  IF idx > 0 THEN SubSeq(bare, 1, idx) ELSE bare

\* lines 73-82: the calls of printDomainInfo, in order
DomainsToPrint(domainArg) ==
    (IF IsSubdomain(domainArg)
     THEN <<[domainName |-> GetRootDomain(domainArg), isRootContext |-> TRUE]>>
     ELSE <<>>)
    \o <<[domainName |-> domainArg, isRootContext |-> FALSE]>>

\* what the lookups may return to the program
ExistsOutcomes == BOOLEAN

WhoisOutcomes == {"ok", "err"}

NameserversOutcomes ==
    {[err |-> TRUE, val |-> <<>>],
     [err |-> FALSE, val |-> <<>>],
     [err |-> FALSE, val |-> <<[Name |-> "ns1.example.net", IP |-> "192.0.2.1"],
                               [Name |-> "ns2.example.net", IP |-> ""]>>]}

RecordsOutcomes ==
    {EmptyRecords,
     [EmptyRecords EXCEPT !.A = <<"104.18.27.120">>,
                          !.AAAA = <<"2606:4700::6812:1b78">>,
                          !.MX = <<"10 mail.example.com">>,
                          !.CNAME = <<"edge.example.net">>]}

\* one entry of the log: the function called, the domain being printed, the
\* argument of the call and what it returned ("" when that is of no interest)
Call(fn, domainName, argument, result) ==
    [fn |-> fn, domain |-> domainName, arg |-> argument, result |-> result]

\* lines 201-239: for each address ReverseLookup, then LookupASN
RECURSIVE AddressCalls(_, _)
AddressCalls(domainName, addrs) ==
    IF addrs = <<>> THEN <<>>
    ELSE <<Call("ReverseLookup", domainName, Head(addrs), ""),
           Call("LookupASN", domainName, Head(addrs), "")>>
         \o AddressCalls(domainName, Tail(addrs))

\* lines 192-256
printRecords(domainName, recs) ==
    AddressCalls(domainName, recs.A) \o AddressCalls(domainName, recs.AAAA)

\* lines 119-135
RECURSIVE NameserverCalls(_, _)
NameserverCalls(domainName, nss) ==
    IF nss = <<>> THEN <<>>
    ELSE (IF Head(nss).IP # ""
          THEN <<Call("LookupASN", domainName, Head(nss).IP, "")>>
          ELSE <<>>)
         \o NameserverCalls(domainName, Tail(nss))

\* the variant carries on when the domain does not exist
AfterExists_NoReturn(exists, rest) == rest

\* lines 95-98
AfterExists(exists, rest) == IF exists THEN rest ELSE <<>>

\* lines 87-161: the calls one printDomainInfo makes, given what they return
printDomainInfo(domainName, isRootContext, noWhois, noTrace, exists, whois, nss, recs) ==
    <<Call("Exists", domainName, domainName, IF exists THEN "true" ELSE "false")>>
    \o AfterExists(exists,
         (IF ~noWhois THEN <<Call("whois.Lookup", domainName, domainName, whois)>> ELSE <<>>)
         \o <<Call("GetNameservers", domainName, domainName,
                   IF nss.err THEN "err" ELSE "ok")>>
         \o (IF nss.err THEN <<>> ELSE NameserverCalls(domainName, nss.val))
         \o (IF ~noTrace /\ ~isRootContext
             THEN <<Call("Trace", domainName, domainName, "ok")>>
             ELSE <<>>)
         \o <<Call("GetRecords", domainName, domainName, "ok")>>
         \o printRecords(domainName, recs))

\* lines 47-75
CliRunCrawler ==
    /\ cli.pc = "runCrawler"
    /\ LET domainArg == NormalizeArgument(cli.args)
       IN  cli' = [cli EXCEPT !.pc = "print",
                              !.domainArg = domainArg,
                              !.todo = DomainsToPrint(domainArg)]
    /\ UNCHANGED <<resolverVars, concVars, matcher>>

\* lines 78, 82 and 87-161: one call of printDomainInfo
CliPrintDomainInfo ==
    /\ cli.pc = "print"
    /\ cli.todo # <<>>
    /\ \E exists \in ExistsOutcomes, whois \in WhoisOutcomes,
          nss \in NameserversOutcomes, recs \in RecordsOutcomes :
         LET d == Head(cli.todo)
         IN  cli' = [cli EXCEPT
                       !.todo = Tail(@),
                       !.printed = Append(@, d.domainName),
                       !.calls = @ \o printDomainInfo(d.domainName, d.isRootContext,
                                                      cli.noWhois, cli.noTrace,
                                                      exists, whois, nss, recs)]
    /\ UNCHANGED <<resolverVars, concVars, matcher>>

\* line 84
CliFinish ==
    /\ cli.pc = "print"
    /\ cli.todo = <<>>
    /\ cli' = [cli EXCEPT !.pc = "done"]
    /\ UNCHANGED <<resolverVars, concVars, matcher>>

InitCli ==
    /\ pc = "idle"
    /\ arg = ""
    /\ ResolverIdle
    /\ ConcurrentIdle
    /\ MatcherIdle
    /\ \E a \in CliArguments, w \in BOOLEAN, t \in BOOLEAN :
         cli = [pc |-> "runCrawler", args |-> a, noWhois |-> w, noTrace |-> t,
                domainArg |-> "", todo |-> <<>>, printed |-> <<>>, calls |-> <<>>]

NextCli == CliRunCrawler \/ CliPrintDomainInfo \/ CliFinish

SpecCli == InitCli /\ [][NextCli]_vars

\* the positions, in the log, of the calls made while printing a domain
CallsFor(d) == {k \in 1..Len(cli.calls) : cli.calls[k].domain = d}

\* the positions of the calls of one function made while printing a domain
CallsOf(fn, d) == {k \in CallsFor(d) : cli.calls[k].fn = fn}

\* C13: for each domain the program has printed, Exists was called exactly
\* once and before every other lookup made for that domain; when it returned
\* false no other lookup was made for that domain; when it returned true,
\* GetNameservers and GetRecords were both called, whatever the WHOIS lookup
\* and GetNameservers returned.
C13_ExistsGatesTheLookups ==
    \A i \in 1..Len(cli.printed) :
        LET d == cli.printed[i]
            e == CallsOf("Exists", d)
        IN  /\ Cardinality(e) = 1
            /\ \A k \in CallsFor(d) : \A j \in e : j <= k
            /\ \A j \in e :
                 IF cli.calls[j].result = "false"
                 THEN CallsFor(d) = e
                 ELSE /\ Cardinality(CallsOf("GetNameservers", d)) = 1
                      /\ Cardinality(CallsOf("GetRecords", d)) = 1
                      /\ \A g \in CallsOf("GetNameservers", d), h \in CallsOf("GetRecords", d) :
                           j < g /\ g < h

\* the root domain does not exist and nothing else is looked up for it; the
\* requested subdomain exists, its WHOIS lookup and GetNameservers fail, and
\* GetRecords is still called
C13_Witness ==
    /\ cli.pc = "done"
    /\ Len(cli.printed) = 2
    /\ Len(cli.calls) >= 5
    /\ cli.calls[1] = Call("Exists", cli.printed[1], cli.printed[1], "false")
    /\ cli.calls[2] = Call("Exists", cli.printed[2], cli.printed[2], "true")
    /\ cli.calls[3].fn = "whois.Lookup" /\ cli.calls[3].result = "err"
    /\ cli.calls[4].fn = "GetNameservers" /\ cli.calls[4].result = "err"
    /\ \E k \in 5..Len(cli.calls) : cli.calls[k].fn = "GetRecords"

-----------------------------------------------------------------------------
(* Regular expressions as the matchers use them: regexp.Compile and         *)
(* Regexp.MatchString for the syntax the built-in table is written in       *)
(* (literals, escaped punctuation, \d, ".", groups with alternation, the    *)
(* operators * + ?, the anchors ^ and $, and a leading (?i)).               *)

CharAt(s, i) == SubSeq(s, i, i)

Digits == {"0", "1", "2", "3", "4", "5", "6", "7", "8", "9"}

LowerLetters == {LowerOf[u] : u \in UpperLetters}

IsAlphanumeric(c) == c \in Digits \cup UpperLetters \cup LowerLetters

Atom(kind, c, alts) == [k |-> kind, c |-> c, alts |-> alts]

ParseError == [ok |-> FALSE, val |-> <<>>, next |-> 0]

RECURSIVE ParseAlternatives(_, _, _)
RECURSIVE ParseItems(_, _, _)

\* one atom at position i of the pattern s
ParseAtom(s, i) ==
    LET c == CharAt(s, i)
    IN  IF c = "\\"
        THEN IF i = Len(s) THEN ParseError
             ELSE IF CharAt(s, i + 1) = "d"
                  THEN [ok |-> TRUE, val |-> Atom("digit", "", <<>>), next |-> i + 2]
             ELSE IF IsAlphanumeric(CharAt(s, i + 1)) THEN ParseError
             ELSE [ok |-> TRUE, val |-> Atom("lit", CharAt(s, i + 1), <<>>), next |-> i + 2]
        ELSE IF c = "("
        THEN LET inner == ParseAlternatives(s, i + 1, <<>>)
             IN  IF inner.ok /\ inner.next <= Len(s) /\ CharAt(s, inner.next) = ")"
                 THEN [ok |-> TRUE, val |-> Atom("group", "", inner.val),
                       next |-> inner.next + 1]
                 ELSE ParseError
        ELSE IF c \in {"*", "+", "?", "[", "]", "{", "}"} THEN ParseError
        ELSE IF c = "." THEN [ok |-> TRUE, val |-> Atom("any", "", <<>>), next |-> i + 1]
        ELSE IF c = "$" THEN [ok |-> TRUE, val |-> Atom("end", "", <<>>), next |-> i + 1]
        ELSE IF c = "^" THEN [ok |-> TRUE, val |-> Atom("begin", "", <<>>), next |-> i + 1]
        ELSE [ok |-> TRUE, val |-> Atom("lit", c, <<>>), next |-> i + 1]

\* the atoms from position i up to the end, a "|" or a ")", each with the
\* repetition operator that follows it
ParseItems(s, i, acc) ==
    IF i > Len(s) \/ CharAt(s, i) \in {"|", ")"}
    THEN [ok |-> TRUE, val |-> acc, next |-> i]
    ELSE LET a == ParseAtom(s, i)
         IN  IF ~a.ok THEN ParseError
             ELSE IF a.next <= Len(s) /\ CharAt(s, a.next) \in {"*", "+", "?"}
                  THEN ParseItems(s, a.next + 1,
                                  Append(acc, [atom |-> a.val, q |-> CharAt(s, a.next)]))
                  ELSE ParseItems(s, a.next, Append(acc, [atom |-> a.val, q |-> "1"]))

\* the alternatives separated by "|" from position i on
ParseAlternatives(s, i, acc) ==
    LET one == ParseItems(s, i, <<>>)
    IN  IF ~one.ok THEN ParseError
        ELSE IF one.next <= Len(s) /\ CharAt(s, one.next) = "|"
             THEN ParseAlternatives(s, one.next + 1, Append(acc, one.val))
             ELSE [ok |-> TRUE, val |-> Append(acc, one.val), next |-> one.next]

\* the flag i: every literal of the expression in lower case, to be compared
\* with the lower-cased text
RECURSIVE FoldCase(_)
FoldCase(alts) ==
    [a \in 1..Len(alts) |->
        [j \in 1..Len(alts[a]) |->
            LET item == alts[a][j]
            IN  [atom |-> Atom(item.atom.k, ToLower(item.atom.c), FoldCase(item.atom.alts)),
                 q |-> item.q]]]

\* regexp.Compile: ok is FALSE when the pattern is rejected
Compile(text) ==
    LET fold == HasPrefix(text, "(?i)")
        s == IF fold THEN SubSeq(text, 5, Len(text)) ELSE text
        parsed == ParseAlternatives(s, 1, <<>>)
    IN  IF parsed.ok /\ parsed.next = Len(s) + 1
        THEN [ok |-> TRUE, fold |-> fold,
              alts |-> IF fold THEN FoldCase(parsed.val) ELSE parsed.val, text |-> text]
        ELSE [ok |-> FALSE, fold |-> fold, alts |-> <<>>, text |-> text]

RECURSIVE SeqEnds(_, _, _)
RECURSIVE Closure(_, _, _)

\* the positions a match of one atom may end at when it starts at position p
\* of s (a position is the number of characters before it)
AtomEnds(atom, s, p) ==
    IF atom.k = "lit"
    THEN IF p < Len(s) /\ CharAt(s, p + 1) = atom.c THEN {p + 1} ELSE {}
    ELSE IF atom.k = "digit"
    THEN IF p < Len(s) /\ CharAt(s, p + 1) \in Digits THEN {p + 1} ELSE {}
    ELSE IF atom.k = "any" THEN (IF p < Len(s) THEN {p + 1} ELSE {})
    ELSE IF atom.k = "end" THEN (IF p = Len(s) THEN {p} ELSE {})
    ELSE IF atom.k = "begin" THEN (IF p = 0 THEN {p} ELSE {})
    ELSE UNION {SeqEnds(atom.alts[a], s, {p}) : a \in 1..Len(atom.alts)}

\* zero or more matches of an atom after any of the positions from
Closure(atom, s, from) ==
    LET more == from \cup UNION {AtomEnds(atom, s, p) : p \in from}
    IN  IF more = from THEN from ELSE Closure(atom, s, more)

ItemEnds(item, s, p) ==
    IF item.q = "1" THEN AtomEnds(item.atom, s, p)
    ELSE IF item.q = "?" THEN {p} \cup AtomEnds(item.atom, s, p)
    ELSE IF item.q = "*" THEN Closure(item.atom, s, {p})
    ELSE Closure(item.atom, s, AtomEnds(item.atom, s, p))

\* the positions a match of the items may end at when it starts at one of from
SeqEnds(items, s, from) ==
    IF items = <<>> \/ from = {} THEN from
    ELSE SeqEnds(Tail(items), s, UNION {ItemEnds(Head(items), s, p) : p \in from})

\* Regexp.MatchString: some part of s matches
MatchString(re, s) ==
    LET text == IF re.fold THEN ToLower(s) ELSE s
    IN  \E a \in 1..Len(re.alts) : SeqEnds(re.alts[a], text, 0..Len(text)) # {}

-----------------------------------------------------------------------------
(* The provider Matcher (provider.go 8-265).                                *)

builtinPatterns ==
    <<
     <<"\\.awsdns-\\d+\\.(com|net|org|co\\.uk)$", "Amazon Route 53">>,
     <<"\\.azure-dns\\.(com|net|org|info)$", "Microsoft Azure DNS">>,
     <<"ns\\d*\\.google\\.com$", "Google Cloud DNS">>,
     <<"\\.googledomains\\.com$", "Google Domains">>,
     <<"\\.cloudflare\\.com$", "Cloudflare">>,
     <<"\\.akam\\.net$", "Akamai">>,
     <<"\\.akamai(dns|edge)?\\.net$", "Akamai">>,
     <<"\\.domaincontrol\\.com$", "GoDaddy">>,
     <<"\\.godaddy\\.com$", "GoDaddy">>,
     <<"\\.registrar-servers\\.com$", "Namecheap">>,
     <<"\\.namecheaphosting\\.com$", "Namecheap">>,
     <<"dns\\d*\\.name-services\\.com$", "Enom">>,
     <<"\\.enom\\.com$", "Enom">>,
     <<"\\.hover\\.com$", "Hover">>,
     <<"\\.name\\.com$", "Name.com">>,
     <<"\\.gandi\\.net$", "Gandi">>,
     <<"\\.ovh\\.(net|com)$", "OVH">>,
     <<"\\.dnsimple\\.com$", "DNSimple">>,
     <<"\\.porkbun\\.com$", "Porkbun">>,
     <<"\\.dynadot\\.com$", "Dynadot">>,
     <<"\\.ionos\\.(com|de)$", "IONOS">>,
     <<"\\.digitalocean\\.com$", "DigitalOcean">>,
     <<"\\.linode\\.com$", "Linode (Akamai)">>,
     <<"\\.vultr\\.com$", "Vultr">>,
     <<"\\.hetzner\\.(com|de)$", "Hetzner">>,
     <<"\\.scw\\.cloud$", "Scaleway">>,
     <<"\\.rackspace\\.com$", "Rackspace">>,
     <<"\\.dreamhost\\.com$", "DreamHost">>,
     <<"\\.bluehost\\.com$", "Bluehost">>,
     <<"\\.hostgator\\.com$", "HostGator">>,
     <<"\\.siteground\\.com$", "SiteGround">>,
     <<"\\.wpengine\\.com$", "WP Engine">>,
     <<"\\.kinsta\\.cloud$", "Kinsta">>,
     <<"\\.netlify\\.com$", "Netlify">>,
     <<"\\.vercel-dns\\.com$", "Vercel">>,
     <<"\\.dnsmadeeasy\\.com$", "DNS Made Easy">>,
     <<"\\.ultradns\\.(com|net|org|biz)$", "Neustar UltraDNS">>,
     <<"\\.nsone\\.net$", "NS1">>,
     <<"\\.p\\d+\\.dynect\\.net$", "Oracle Dyn">>,
     <<"\\.dynect\\.net$", "Oracle Dyn">>,
     <<"\\.easydns\\.(com|net|org)$", "easyDNS">>,
     <<"\\.constellix\\.com$", "Constellix">>,
     <<"\\.rage4\\.com$", "Rage4">>,
     <<"\\.he\\.net$", "Hurricane Electric">>,
     <<"\\.afraid\\.org$", "FreeDNS (afraid.org)">>,
     <<"\\.no-ip\\.com$", "No-IP">>,
     <<"\\.dyn\\.com$", "Oracle Dyn">>,
     <<"\\.zoneedit\\.com$", "ZoneEdit">>,
     <<"\\.dnspod\\.net$", "DNSPod (Tencent)">>,
     <<"\\.edgedns\\.net$", "Akamai Edge DNS">>,
     <<"\\.hyp\\.net$", "Domeneshop">>,
     <<"\\.fastly\\.net$", "Fastly">>,
     <<"\\.stackpathdns\\.com$", "StackPath">>,
     <<"\\.leaseweb\\.(com|net)$", "Leaseweb">>,
     <<"\\.worldnic\\.com$", "Network Solutions">>,
     <<"\\.networksolutions\\.com$", "Network Solutions">>,
     <<"\\.verisign-grs\\.com$", "Verisign">>,
     <<"\\.cscdns\\.net$", "CSC">>,
     <<"\\.markmonitor\\.com$", "MarkMonitor">>,
     <<"\\.safenames\\.net$", "Safenames">>,
     <<"\\.domeneshop\\.no$", "Domeneshop">>,
     <<"\\.transip\\.nl$", "TransIP">>,
     <<"\\.strato\\.(de|com)$", "Strato">>,
     <<"\\.1und1\\.de$", "1&1 IONOS">>,
     <<"\\.loopia\\.se$", "Loopia">>,
     <<"\\.one\\.com$", "one.com">>,
     <<"\\.binero\\.se$", "Binero">>,
     <<"\\.active24\\.(cz|com)$", "Active24">>,
     <<"\\.teliacompany\\.com$", "Telia">>,
     <<"\\.telia\\.net$", "Telia">>,
     <<"\\.telenor\\.(net|com|no)$", "Telenor">>,
     <<"\\.altibox\\.net$", "Altibox">>
    >>

\* lines 198-199: the entries of a table, each with its pattern compiled
\* without regard to case
CompiledTable(table) ==
    [i \in 1..Len(table) |->
        [Regex |-> Compile("(?i)" \o table[i][1]), Provider |-> table[i][2]]]

\* lines 195-215: compile every entry, skip those that do not compile
newMatcherFrom(table) == SelectSeq(CompiledTable(table), LAMBDA p : p.Regex.ok)

\* lines 181-183
NewMatcher == newMatcherFrom(builtinPatterns)

\* the variant puts a new pattern behind the ones the matcher has
AddToList_Append(patterns, p) == Append(patterns, p)

\* line 238
AddToList(patterns, p) == <<p>> \o patterns

NoPatternError == ""

\* lines 219-240: the error returned ("" for nil) and the pattern list after
AddPattern(patterns, spec) ==
    LET parts == SplitN(spec, ":", 2)
    IN  IF Len(parts) # 2
        THEN [err |-> "invalid format, expected 'pattern:provider'", patterns |-> patterns]
        ELSE LET pattern == TrimSpace(parts[1])
                 provider == TrimSpace(parts[2])
                 re == Compile("(?i)" \o pattern)
             IN  IF pattern = "" \/ provider = ""
                 THEN [err |-> "pattern and provider cannot be empty", patterns |-> patterns]
                 ELSE IF ~re.ok
                 THEN [err |-> "invalid regex", patterns |-> patterns]
                 ELSE [err |-> NoPatternError,
                       patterns |-> AddToList(patterns, [Regex |-> re, Provider |-> provider])]

\* lines 257-264: the loop returns at the first pattern that matches
FirstMatch(patterns, s) ==
    LET hits == {i \in 1..Len(patterns) : MatchString(patterns[i].Regex, s)}
    IN  IF hits = {} THEN "" ELSE patterns[MinOf(hits)].Provider

\* lines 255-265
Match(patterns, nameserver) == FirstMatch(patterns, ToLower(nameserver))

MaxCustom == 2

\* the -p arguments a user may give
PatternSpecs ==
    {"\\.cloudflare\\.com$:My CDN",
     " ns\\d+\\.example\\.net$ : Example Hosting ",
     "example:Lab",
     "no separator",
     "(cloudflare:Broken"}

\* the hostnames handed to Match
Hostnames ==
    {"NS1.Cloudflare.COM", "ns2.example.net", "ns-123.awsdns-45.co.uk",
     "ns1.google.com", "a1-64.akam.net", "ns.example.org"}

NoCall == [op |-> "", arg |-> "", result |-> ""]

\* a call of AddPattern on the matcher with one of the given specs, while
\* the matcher has taken fewer than max specs
AddPatternCall(given, max) ==
    /\ matcher.pc = "ready"
    /\ Len(matcher.specs) < max
    /\ \E spec \in given :
         LET r == AddPattern(matcher.patterns, spec)
         IN  matcher' = [matcher EXCEPT
                           !.patterns = r.patterns,
                           !.specs = Append(@, [spec |-> spec, err |-> r.err]),
                           !.last = [op |-> "AddPattern", arg |-> spec, result |-> r.err]]
    /\ UNCHANGED <<resolverVars, concVars, cli>>

MatcherAddPattern == AddPatternCall(PatternSpecs, MaxCustom)

MaxBatch == 2

\* the -p arguments of a batch: two specs the matcher accepts and one with
\* each defect AddPattern looks for
BatchSpecs ==
    {"\\.cloudflare\\.com$:My CDN",
     "example:Lab",
     "no separator",
     " :Nameless",
     "example\\.org$:  ",
     "(cloudflare:Broken"}

\* a call of AddPatterns on the matcher with a batch of -p arguments
\* (part_000 62-63, provider.go 243-244)
MatcherAddPatterns ==
    /\ matcher.pc = "ready"
    /\ \E batch \in SeqsUpTo(BatchSpecs, MaxBatch - Len(matcher.specs)) \ {<<>>} :
         matcher' = [matcher EXCEPT !.pc = "AddPatterns", !.batch = batch, !.todo = batch,
                                    !.errors = <<>>, !.before = matcher.patterns]
    /\ UNCHANGED <<resolverVars, concVars, cli>>

\* the variant leaves the loop at the first spec that AddPattern refuses
NextSpecs_BreakOnError(err, rest) == IF err # NoPatternError THEN <<>> ELSE rest

\* lines 245-249: the loop goes on to the next spec whatever AddPattern
\* returned
NextSpecs(err, rest) == rest

\* lines 245-249: one turn of the loop
AddPatternsIter ==
    /\ matcher.pc = "AddPatterns"
    /\ matcher.todo # <<>>
    /\ \E r \in {AddPattern(matcher.patterns, Head(matcher.todo))} :
         matcher' = [matcher EXCEPT
                       !.patterns = r.patterns,
                       !.specs = Append(@, [spec |-> Head(matcher.todo), err |-> r.err]),
                       !.errors = IF r.err # NoPatternError THEN Append(@, r.err) ELSE @,
                       !.todo = NextSpecs(r.err, Tail(matcher.todo))]
    /\ UNCHANGED <<resolverVars, concVars, cli>>

\* line 250
AddPatternsReturn ==
    /\ matcher.pc = "AddPatterns"
    /\ matcher.todo = <<>>
    /\ matcher' = [matcher EXCEPT
                     !.pc = "ready",
                     !.batch = <<>>, !.errors = <<>>, !.before = <<>>,
                     !.last = [op |-> "AddPatterns", arg |-> matcher.batch,
                               result |-> matcher.errors]]
    /\ UNCHANGED <<resolverVars, concVars, cli>>

\* a call of Match on the matcher with one of the given hostnames
MatchCall(given) ==
    /\ matcher.pc = "ready"
    /\ \E host \in given :
         matcher' = [matcher EXCEPT
                       !.last = [op |-> "Match", arg |-> host,
                                 result |-> Match(matcher.patterns, host)]]
    /\ UNCHANGED <<resolverVars, concVars, cli>>

MatcherMatch == MatchCall(Hostnames)

InitMatcher ==
    /\ pc = "idle"
    /\ arg = ""
    /\ ResolverIdle
    /\ ConcurrentIdle
    /\ CliIdle
    /\ matcher = [pc |-> "ready", patterns |-> NewMatcher, specs |-> <<>>, last |-> NoCall]

NextMatcher == MatcherAddPattern \/ MatcherMatch

SpecMatcher == InitMatcher /\ [][NextMatcher]_vars

\* AddPattern called with a spec of the batch set
BatchAddPattern == AddPatternCall(BatchSpecs, MaxBatch)

\* the hostnames handed to Match after a batch: one that a custom and a
\* built-in pattern match, one that only a custom pattern matches and one
\* that only a built-in pattern matches
BatchHostnames == {"NS1.Cloudflare.COM", "ns.example.org", "ns1.google.com"}

BatchMatch == MatchCall(BatchHostnames)

\* a new matcher, no call of AddPatterns under way
InitAddPatterns ==
    /\ pc = "idle"
    /\ arg = ""
    /\ ResolverIdle
    /\ ConcurrentIdle
    /\ CliIdle
    /\ matcher = [pc |-> "ready", patterns |-> NewMatcher, specs |-> <<>>, last |-> NoCall,
                  batch |-> <<>>, todo |-> <<>>, errors |-> <<>>, before |-> <<>>]

NextAddPatterns ==
    \/ MatcherAddPatterns
    \/ AddPatternsIter
    \/ AddPatternsReturn
    \/ BatchAddPattern
    \/ BatchMatch

SpecAddPatterns == InitAddPatterns /\ [][NextAddPatterns]_vars

\* the custom patterns the matcher accepted, the most recently added first,
\* each as its pattern text and its provider
RECURSIVE CustomPatterns(_)
CustomPatterns(specs) ==
    IF specs = <<>> THEN <<>>
    ELSE LET n == Len(specs)
             parts == SplitN(specs[n].spec, ":", 2)
         IN  (IF specs[n].err = NoPatternError
              THEN <<<<TrimSpace(parts[1]), TrimSpace(parts[2])>>>>
              ELSE <<>>)
             \o CustomPatterns(SubSeq(specs, 1, n - 1))

\* the built-in table, entry by entry
CompiledBuiltins == CompiledTable(builtinPatterns)

\* the positions of the entries of a compiled list that match the lower-cased
\* hostname
MatchingEntries(list, host) ==
    {i \in 1..Len(list) : MatchString(list[i].Regex, ToLower(host))}

\* C14: whatever AddPattern calls came before, Match returns the provider of
\* the first matching entry of the list made of the accepted custom patterns,
\* the most recently added first, followed by the built-in table in its
\* order, and "" when no entry matches; so whenever a custom pattern matches
\* the hostname the result is the provider of a custom pattern, whether or
\* not a built-in pattern matches too.
C14_CustomPatternsFirst ==
    matcher.last.op = "Match" =>
        LET custom == CompiledTable(CustomPatterns(matcher.specs))
            list == custom \o CompiledBuiltins
            hits == MatchingEntries(list, matcher.last.arg)
            customHits == {i \in hits : i <= Len(custom)}
        IN  /\ hits = {} => matcher.last.result = ""
            /\ hits # {} => matcher.last.result = list[MinOf(hits)].Provider
            /\ customHits # {} =>
                 \E i \in customHits : matcher.last.result = custom[i].Provider

\* a custom pattern and the built-in Cloudflare pattern both match the
\* hostname, and Match answers with the custom provider
C14_Witness ==
    /\ matcher.last = [op |-> "Match", arg |-> "NS1.Cloudflare.COM", result |-> "My CDN"]
    /\ MatchingEntries(CompiledBuiltins, "NS1.Cloudflare.COM") # {}
    /\ Len(matcher.specs) = 2

\* two custom patterns match the hostname and the later one wins
C14_WitnessLatestFirst ==
    /\ matcher.last = [op |-> "Match", arg |-> "ns2.example.net", result |-> "Lab"]
    /\ Len(matcher.specs) = 2
    /\ matcher.specs[1].spec = " ns\\d+\\.example\\.net$ : Example Hosting "
    /\ matcher.specs[2].spec = "example:Lab"

-----------------------------------------------------------------------------
(* Trace, hop by hop (resolver.go 122-184).  A hop is a step of TraceIter   *)
(* that sends a query; hop' then holds its zone, reply and host lookups.    *)

\* the names of the queries sent, in order
SentNames == [k \in 1..Len(sent) |-> sent[k].name]

\* the zones of a sequence other than the root zone
NonRootZones(zs) == SelectSeq(zs, LAMBDA z : z # ".")

\* C15: for every domain and every pattern of replies and transport
\* failures, Trace returns after exactly one loop iteration per zone of the
\* precomputed sequence, having sent exactly one query for each non-root zone
\* of the sequence, in sequence order, and it returns its steps with no error.
C15_OneIterationAndOneQueryPerZone ==
    pc = "done" =>
        /\ zi = Len(zones) + 1
        /\ SentNames = NonRootZones(zones)
        /\ ret.err = FALSE
        /\ ret.val = steps

\* C15 for the domains that have at least one label
C15_HoldsWithLabels ==
    (pc = "done" /\ CountLabel(arg) >= 1) =>
        /\ zi = Len(zones) + 1
        /\ SentNames = NonRootZones(zones)
        /\ ret.err = FALSE
        /\ ret.val = steps

\* the part of C15 that holds for every domain: one iteration per zone, one
\* query for each zone after the first, no error
C15_OneQueryPerZoneAfterTheFirst ==
    pc = "done" =>
        /\ zi = Len(zones) + 1
        /\ SentNames = Tail(zones)
        /\ ret.err = FALSE

\* C16: a hop whose query fails at transport level emits no step, leaves
\* steps and currentServer as they were and moves on to the next zone; and
\* when Trace returns it has queried every zone after the first, whatever
\* failed on the way.
C16_FailedHopChangesNothing ==
    [][ /\ (Len(sent') > Len(sent) /\ hop'[1].reply.err) =>
             /\ steps' = steps
             /\ currentServer' = currentServer
             /\ zi' = zi + 1
             /\ pc' = "loop"
        /\ (pc = "loop" /\ pc' = "done") =>
             /\ Len(sent) = Len(zones) - 1
             /\ \A k \in 1..Len(sent) : sent[k].name = zones[k + 1]
      ]_vars

\* the first hop gave a step and a glue address, the second hop failed: the
\* step and the address are kept
C16_Witness ==
    /\ pc = "loop"
    /\ Len(sent) = 2
    /\ hop # <<>>
    /\ hop[1].reply.err
    /\ hop[1].zone = sent[2].name
    /\ Len(steps) = 2
    /\ steps[2].Zone = sent[1].name
    /\ currentServer = "192.0.2.1"

\* the address a hop obtains from the NS records it is given: for the first
\* record that has one, the glue address, else the first address the system
\* resolver gave; "" when no record has either
RECURSIVE FirstAddress(_, _, _)
FirstAddress(nsr, extra, hosts) ==
    IF nsr = <<>> THEN ""
    ELSE LET target == Head(nsr).val
             glue == GlueAt(extra, target)
             ips == LookupHost(hosts, TrimSuffix(target, "."))
             address == IF glue # {} THEN IPv4String(extra[MinOf(glue)].ip)
                        ELSE IF Len(ips) > 0 THEN ips[1]
                        ELSE ""
         IN  IF address # "" THEN address ELSE FirstAddress(Tail(nsr), extra, hosts)

\* the address obtained at a hop, "" if none
Obtained(h) ==
    IF h.reply.err THEN ""
    ELSE FirstAddress(Only(TraceSection(h.reply), {"NS"}), h.reply.Extra,
                      HostsOf(h.lookedUp))

\* C17: Trace starts with currentServer 198.41.0.4; every query is the
\* non-recursive NS query for the zone of the hop, sent to currentServer on
\* port 53; after the hop currentServer is the address obtained at that hop
\* (glue, or the first address of the host lookup) if one was obtained and is
\* unchanged otherwise, and nothing else changes it.
C17_CurrentServerFollowsObtainedAddress ==
    [][ /\ (pc = "Trace" /\ pc' = "loop") => currentServer' = "198.41.0.4"
        /\ (pc = "loop" /\ Len(sent') = Len(sent)) => currentServer' = currentServer
        /\ Len(sent') > Len(sent) =>
             /\ Last(sent') = [server |-> currentServer \o ":53", name |-> hop'[1].zone,
                               qtype |-> "NS", rd |-> FALSE]
             /\ hop'[1].zone = zones[zi]
             /\ currentServer' = IF Obtained(hop'[1]) # "" THEN Obtained(hop'[1])
                                 ELSE currentServer
      ]_vars

\* the first hop obtained its address from the host lookup, the second hop
\* was sent there and obtained nothing: currentServer stays
C17_Witness ==
    /\ pc = "loop"
    /\ Len(sent) = 2
    /\ sent[1].server = "198.41.0.4:53"
    /\ sent[2].server = "203.0.113.5:53"
    /\ hop # <<>>
    /\ ~hop[1].reply.err
    /\ Obtained(hop[1]) = ""
    /\ currentServer = "203.0.113.5"

\* a reply carries an NS record, in its answer or its authority section
CarriesNS(r) == Only(r.Answer, {"NS"}) # <<>> \/ Only(r.Ns, {"NS"}) # <<>>

\* C18: a hop emits a step, and that step is for the zone of the hop, if and
\* only if its query succeeded and the response carries an NS record.
C18_StepIffNSRecord ==
    [][ Len(sent') > Len(sent) =>
          /\ Len(steps') > Len(steps) <=> (~hop'[1].reply.err /\ CarriesNS(hop'[1].reply))
          /\ Len(steps') > Len(steps) =>
               /\ steps' = Append(steps, Last(steps'))
               /\ Last(steps').Zone = hop'[1].zone
      ]_vars

\* the part of C18 that holds: a hop whose query failed or whose response
\* carries no NS record emits no step, and a step is for the zone of its hop
C18_NoStepWithoutNSRecord ==
    [][ Len(sent') > Len(sent) =>
          /\ Len(steps') > Len(steps) => (~hop'[1].reply.err /\ CarriesNS(hop'[1].reply))
          /\ Len(steps') > Len(steps) =>
               /\ steps' = Append(steps, Last(steps'))
               /\ Last(steps').Zone = hop'[1].zone
          /\ Len(steps') <= Len(steps) => steps' = steps
      ]_vars

\* C19: the server of the step a hop emits is the target, without its
\* trailing dot, of the first NS record of the section the records were
\* taken from, whether or not an address was obtained for that record.
C19_ServerIsFirstNSRecord ==
    [][ (Len(sent') > Len(sent) /\ Len(steps') > Len(steps)) =>
          LET nsr == Only(TraceSection(hop'[1].reply), {"NS"})
          IN  /\ nsr # <<>>
              /\ Last(steps').Server = TrimSuffix(nsr[1].val, ".")
      ]_vars

\* what holds instead of C19: the server is the target of the first NS
\* record for which an address was obtained, and of the last NS record when
\* no address was obtained for any
C19_ServerIsRecordThatGaveAddress ==
    [][ (Len(sent') > Len(sent) /\ Len(steps') > Len(steps)) =>
          LET r == hop'[1].reply
              nsr == Only(TraceSection(r), {"NS"})
              gave == {i \in 1..Len(nsr) :
                         FirstAddress(<<nsr[i]>>, r.Extra, HostsOf(hop'[1].lookedUp)) # ""}
          IN  /\ nsr # <<>>
              /\ Last(steps').Server =
                   TrimSuffix(nsr[IF gave # {} THEN MinOf(gave) ELSE Len(nsr)].val, ".")
      ]_vars

\* the NS records C20 says a hop works with
TakenByPreference(r) ==
    IF Only(r.Answer, {"NS"}) # <<>> THEN Only(r.Answer, {"NS"}) ELSE Only(r.Ns, {"NS"})

\* C20: a hop whose query succeeded works with the NS records of the answer
\* section when it holds any and with those of the authority section
\* otherwise, be the answer section empty or filled with records of other
\* types: the step it emits and the server it moves to are those these
\* records give.
C20_AuthorityWhenAnswerHasNoNS ==
    [][ (Len(sent') > Len(sent) /\ ~hop'[1].reply.err) =>
          LET r == hop'[1].reply
              scan == ScanNS(TakenByPreference(r), r.Extra, HostsOf(hop'[1].lookedUp), NoScan)
          IN  /\ steps' = TraceEmit(steps, hop'[1].zone, scan.serverName)
              /\ currentServer' = IF scan.nextServer # "" THEN scan.nextServer
                                  ELSE currentServer
      ]_vars

\* what holds instead of C20: the authority section is used only when the
\* answer section is empty
C20_AuthorityOnlyWhenAnswerEmpty ==
    [][ (Len(sent') > Len(sent) /\ ~hop'[1].reply.err) =>
          LET r == hop'[1].reply
              taken == IF Len(r.Answer) > 0 THEN Only(r.Answer, {"NS"})
                       ELSE Only(r.Ns, {"NS"})
              scan == ScanNS(taken, r.Extra, HostsOf(hop'[1].lookedUp), NoScan)
          IN  /\ steps' = TraceEmit(steps, hop'[1].zone, scan.serverName)
              /\ currentServer' = IF scan.nextServer # "" THEN scan.nextServer
                                  ELSE currentServer
      ]_vars

-----------------------------------------------------------------------------
(* The zone sequence of Trace and the zones of its steps (resolver.go       *)
(* 114-128, 174-176).                                                       *)

\* the labels of a domain from left to right; the root and the empty name
\* have none
LabelList(d) ==
    LET bare == TrimSuffix(d, ".")
    IN  IF bare = "" THEN <<>> ELSE Split(bare, ".")

\* "." and then, for each label from the rightmost to the leftmost, the label
\* joined with everything to its right, with a final "."
ZonePath(d) ==
    LET labels == LabelList(d)
        n == Len(labels)
    IN  <<".">> \o [k \in 1..n |-> Join(SubSeq(labels, n - k + 1, n), ".") \o "."]

\* sub can be had from seq by leaving elements out
RECURSIVE IsSubsequence(_, _)
IsSubsequence(sub, seq) ==
    IF sub = <<>> THEN TRUE
    ELSE IF seq = <<>> THEN FALSE
    ELSE IF Head(sub) = Head(seq) THEN IsSubsequence(Tail(sub), Tail(seq))
    ELSE IsSubsequence(sub, Tail(seq))

\* the zones of a list of steps, in order
StepZones(ss) == [k \in 1..Len(ss) |-> ss[k].Zone]

\* C21: the zone sequence Trace walks is "." followed, for each label of the
\* domain from rightmost to leftmost, by that label joined with everything to
\* its right and a final "."; the zones of the returned steps are a
\* subsequence of that sequence, and no zone appears twice among them.
C21_ZonePathAndStepZones ==
    pc = "done" =>
        /\ zones = ZonePath(arg)
        /\ IsSubsequence(StepZones(ret.val), ZonePath(arg))
        /\ \A i, j \in 1..Len(ret.val) : i # j => ret.val[i].Zone # ret.val[j].Zone

\* C21 for the domains that have at least one label
C21_HoldsWithLabels ==
    (pc = "done" /\ CountLabel(arg) >= 1) =>
        /\ zones = ZonePath(arg)
        /\ IsSubsequence(StepZones(ret.val), ZonePath(arg))
        /\ \A i, j \in 1..Len(ret.val) : i # j => ret.val[i].Zone # ret.val[j].Zone

\* the part of C21 that holds for every domain: the zones of the steps are a
\* subsequence of the sequence the code walks
C21_StepZonesFollowWalkedZones ==
    pc = "done" => IsSubsequence(StepZones(ret.val), zones)


-----------------------------------------------------------------------------
(* The extractor of the A, AAAA and CNAME queries (resolver.go 316-338)     *)
(* against answer sections that mix record types.                           *)

\* the record type each of the five queries of GetRecords asks for
QueriedType(k) == <<"A", "AAAA", "MX", "TXT", "CNAME">>[k]

\* the queries of GetRecords that go through queryRecords
SharedExtractorQueries == {1, 2, 5}

\* C22: Records.A holds only the values of the A records of the answer to
\* the A query, Records.AAAA only those of the AAAA records of the answer to
\* the AAAA query and Records.CNAME only the targets of the CNAME records of
\* the answer to the CNAME query, in answer order and without deduplication,
\* whatever other record types the answer section carries.
C22_ExtractorIsTypeFiltered ==
    pc = "done" =>
        \A k \in SharedExtractorQueries :
            ~rcvd[k].err =>
                LET own == Only(rcvd[k].Answer, {QueriedType(k)})
                IN  FieldOf(ret.val, k) = [i \in 1..Len(own) |-> ValueOf(own[i])]

\* C22, for answer sections that hold records of the queried type only: the
\* field is the value of every answer record, in answer order
C22_HoldsForUnmixedAnswers ==
    pc = "done" =>
        \A k \in SharedExtractorQueries :
            (~rcvd[k].err /\ \A i \in 1..Len(rcvd[k].Answer) :
                                 rcvd[k].Answer[i].type = QueriedType(k)) =>
                FieldOf(ret.val, k) = [i \in 1..Len(rcvd[k].Answer) |-> ValueOf(rcvd[k].Answer[i])]


-----------------------------------------------------------------------------
(* AddPattern and AddPatterns on specs the matcher must refuse              *)
(* (provider.go 219-251).                                                   *)

\* a spec as the format 'pattern:provider' reads it: the text before the
\* first ':' and the text after it, both trimmed
SpecPattern(spec) == TrimSpace(SplitN(spec, ":", 2)[1])

SpecProvider(spec) == TrimSpace(SplitN(spec, ":", 2)[2])

\* no ':' separator, pattern or provider empty after trimming, or a regex
\* that does not compile
InvalidSpec(spec) ==
    \/ ~Contains(spec, ":")
    \/ SpecPattern(spec) = ""
    \/ SpecProvider(spec) = ""
    \/ ~Compile("(?i)" \o SpecPattern(spec)).ok

\* the entries the valid specs of a batch put on the list: the last valid
\* spec of the batch first
ValidEntries(batch) ==
    LET valid == SelectSeq(batch, LAMBDA spec : ~InvalidSpec(spec))
    IN  Reverse([k \in 1..Len(valid) |->
                   [Regex |-> Compile("(?i)" \o SpecPattern(valid[k])),
                    Provider |-> SpecProvider(valid[k])]])

\* the step is a call of AddPattern from outside AddPatterns
AddPatternCalled ==
    /\ matcher.pc = "ready"
    /\ Len(matcher'.specs) > Len(matcher.specs)
    /\ matcher'.last.op = "AddPattern"

\* the step is the return of AddPatterns
AddPatternsReturned == matcher.pc = "AddPatterns" /\ matcher'.pc = "ready"

\* C23: a call of AddPattern with an invalid spec returns an error and leaves
\* the pattern list as it was, so Match gives for every hostname the result
\* it gave before the call; a call of AddPatterns puts an entry on the list
\* for every valid spec of the batch, whatever invalid specs stand before or
\* after it, and returns as many errors as the batch has invalid specs.
C23_InvalidSpecsChangeNothing ==
    [][/\ (AddPatternCalled /\ InvalidSpec(matcher'.last.arg)) =>
             /\ matcher'.last.result # NoPatternError
             /\ matcher'.patterns = matcher.patterns
             /\ \A host \in BatchHostnames :
                  Match(matcher'.patterns, host) = Match(matcher.patterns, host)
       /\ AddPatternsReturned =>
             LET batch == matcher'.last.arg
             IN  /\ batch = matcher.batch
                 /\ matcher'.patterns = ValidEntries(batch) \o matcher.before
                 /\ Len(matcher'.last.result)
                      = Len(SelectSeq(batch, InvalidSpec))
                 /\ \A k \in 1..Len(matcher'.last.result) :
                      matcher'.last.result[k] # NoPatternError]_vars

\* AddPattern has refused a spec with each of the four defects, on a matcher
\* that holds a custom pattern
C23_Witness ==
    /\ matcher.last.op = "AddPattern"
    /\ matcher.last.arg \in {"no separator", " :Nameless", "example\\.org$:  ", "(cloudflare:Broken"}
    /\ matcher.last.result # NoPatternError
    /\ Len(matcher.specs) = 2
    /\ matcher.specs[1].err = NoPatternError
    /\ Len(matcher.patterns) = Len(NewMatcher) + 1

\* AddPatterns has taken a batch that starts with an invalid spec: the valid
\* spec behind it is on the list and one error came back
C23_WitnessBatch ==
    /\ matcher.pc = "ready"
    /\ matcher.last.op = "AddPatterns"
    /\ matcher.last.arg = <<"(cloudflare:Broken", "example:Lab">>
    /\ Len(matcher.last.result) = 1
    /\ Len(matcher.patterns) = Len(NewMatcher) + 1
    /\ matcher.patterns[1].Provider = "Lab"


-----------------------------------------------------------------------------
(* GetRootDomain and IsSubdomain (domain.go 142-174) and the use runCrawler *)
(* makes of them (part_000 48-82), over domain names of up to MaxNameLabels *)
(* labels in the spellings the code normalises.                             *)

MaxNameLabels == 4

\* labels of which "co.uk" and "com.co" are listed two-part suffixes, as a
\* user may type them
TypedLabels == <<"www", "Example", "CO", "uk", "com">>

\* a name of the given labels: bare, fully qualified, or padded with spaces
Spelling(labels, form) ==
    LET bare == Join(labels, ".")
    IN  IF form = "fqdn" THEN ToLower(bare) \o "."
        ELSE IF form = "typed" THEN " " \o bare \o ". "
        ELSE ToLower(bare)

DomainNames ==
    {Spelling([k \in 1..Len(is) |-> TypedLabels[is[k]]], form) :
        is \in SeqsUpTo(1..Len(TypedLabels), MaxNameLabels) \ {<<>>},
        form \in {"bare", "fqdn", "typed"}}
    \cup {"."}

\* GetRootDomain and IsSubdomain called on the name
DomainGetRootDomain ==
    /\ cli.pc = "domain.name"
    /\ cli' = [cli EXCEPT !.pc = "domain.root",
                          !.root = GetRootDomain(cli.name),
                          !.sub = IsSubdomain(cli.name)]
    /\ UNCHANGED <<resolverVars, concVars, matcher>>

\* GetRootDomain and IsSubdomain called on the root domain found
DomainRootOfRoot ==
    /\ cli.pc = "domain.root"
    /\ cli' = [cli EXCEPT !.pc = "domain.rootOfRoot",
                          !.rootOfRoot = GetRootDomain(cli.root),
                          !.rootIsSub = IsSubdomain(cli.root)]
    /\ UNCHANGED <<resolverVars, concVars, matcher>>

\* part_000 48-82 with the name as argument: the domains handed to
\* printDomainInfo, in order
DomainRunCrawler ==
    /\ cli.pc = "domain.rootOfRoot"
    /\ cli' = [cli EXCEPT !.pc = "domain.done",
                          !.domainArg = NormalizeArgument(cli.name),
                          !.printed = DomainsToPrint(NormalizeArgument(cli.name))]
    /\ UNCHANGED <<resolverVars, concVars, matcher>>

InitDomain ==
    /\ pc = "idle"
    /\ arg = ""
    /\ ResolverIdle
    /\ ConcurrentIdle
    /\ MatcherIdle
    /\ \E d \in DomainNames :
         cli = [pc |-> "domain.name", name |-> d, root |-> "", sub |-> FALSE,
                rootOfRoot |-> "", rootIsSub |-> FALSE, domainArg |-> "", printed |-> <<>>]

NextDomain == DomainGetRootDomain \/ DomainRootOfRoot \/ DomainRunCrawler

SpecDomain == InitDomain /\ [][NextDomain]_vars

\* the labels of a name as typed: lower-cased, without the spaces around it
\* and without the dot of the root
LabelsOfName(d) == LabelList(ToLower(TrimSpace(d)))

\* the last k labels of a name, all of them when it has fewer
LastLabels(labels, k) ==
    LET n == Len(labels)
    IN  Join(SubSeq(labels, IF n > k THEN n - k + 1 ELSE 1, n), ".")

EndsInListedSuffix(labels) ==
    Len(labels) >= 2 /\ LastLabels(labels, 2) \in multiPartTLDs

\* C24: for every domain name d, GetRootDomain(GetRootDomain(d)) =
\* GetRootDomain(d) and IsSubdomain(GetRootDomain(d)) is false; the root
\* domain of a name that ends in a listed two-part suffix is its last three
\* labels and that of any other name its last two (the whole name when it
\* has no more labels than that); and runCrawler hands the root domain to
\* printDomainInfo, before the requested name, exactly when the requested
\* name has more labels than its root domain.
C24_RootDomainIsAFixedPoint ==
    LET labels == LabelsOfName(cli.name)
        rootFirst == <<[domainName |-> cli.root, isRootContext |-> TRUE],
                       [domainName |-> cli.domainArg, isRootContext |-> FALSE]>>
        nameOnly == <<[domainName |-> cli.domainArg, isRootContext |-> FALSE]>>
    IN  /\ cli.pc \in {"domain.root", "domain.rootOfRoot", "domain.done"} =>
              cli.root = LastLabels(labels, IF EndsInListedSuffix(labels) THEN 3 ELSE 2)
        /\ cli.pc \in {"domain.rootOfRoot", "domain.done"} =>
              /\ cli.rootOfRoot = cli.root
              /\ cli.rootIsSub = FALSE
        /\ cli.pc = "domain.done" =>
              /\ Len(labels) > Len(LabelList(cli.root)) => cli.printed = rootFirst
              /\ Len(labels) <= Len(LabelList(cli.root)) => cli.printed = nameOnly

\* a four-label name under a listed suffix, typed with capitals, with spaces and
\* the dot of the root: its root domain is its last three labels and is
\* printed first
C24_Witness ==
    /\ cli.pc = "domain.done"
    /\ cli.name = " www.Example.CO.uk. "
    /\ cli.root = "example.co.uk"
    /\ cli.rootOfRoot = "example.co.uk"
    /\ cli.sub
    /\ ~cli.rootIsSub
    /\ Len(cli.printed) = 2

\* a three-label name that is a root domain under a listed suffix: nothing is
\* printed before it
C24_WitnessRootItself ==
    /\ cli.pc = "domain.done"
    /\ cli.name = "example.co.uk."
    /\ cli.root = "example.co.uk"
    /\ ~cli.sub
    /\ cli.printed = <<[domainName |-> "example.co.uk.", isRootContext |-> FALSE]>>

====
